---- MODULE Spec2Model ----
(***************************************************************************)
(* hamsterdb: the environment (LocalEnvironment), its header page with the *)
(* per-database btree descriptors, the changeset/journal write path and    *)
(* recovery.  Handlers run to completion; the device and journal I/O a     *)
(* handler issues is queued in program order and applied one request at a  *)
(* time, so that a crash can fall between any two requests.                *)
(***************************************************************************)
EXTENDS Integers, Sequences, FiniteSets, TLC

\* ---------------------------------------------------------------- bounds
MaxDatabases == 2
MaxName == 3
NPages == 2
MaxLsn == 3

Slots == 0..(MaxDatabases - 1)
Names == 1..MaxName
StatePage == NPages + 1
Addrs == 0..StatePage

\* ------------------------------------------------------------- constants
\* (ham_u16_t)-1 and the width of a record number key; the largest integer
\* of the model checker stands for the record size (ham_u32_t)-1
HAM_KEY_SIZE_UNLIMITED == 65535
RecnoKeySize == 8
HAM_RECORD_SIZE_UNLIMITED == 2147483647

HAM_SUCCESS == "HAM_SUCCESS"

CurVersion == <<2, 1, 8, "HAM_FILE_VERSION">>

\* environment flags
EF_IN_MEMORY == "HAM_IN_MEMORY"
EF_READ_ONLY == "HAM_READ_ONLY"
EF_RECOVERY == "HAM_ENABLE_RECOVERY"
EF_AUTO_RECOVERY == "HAM_AUTO_RECOVERY"
HAM_DONT_CLEAR_LOG == "HAM_DONT_CLEAR_LOG"

\* database flags
HAM_RECORD_NUMBER == "HAM_RECORD_NUMBER"
HAM_ENABLE_DUPLICATE_KEYS == "HAM_ENABLE_DUPLICATE_KEYS"
HAM_FORCE_RECORDS_INLINE == "HAM_FORCE_RECORDS_INLINE"
HAM_FLUSH_WHEN_COMMITTED == "HAM_FLUSH_WHEN_COMMITTED"

KeyTypes == {"BINARY", "CUSTOM", "UINT8", "UINT16", "UINT32", "UINT64",
             "REAL32", "REAL64"}

\* ---------------------------------------------------------------- pages
\* A page address that was never written reads as NilPage.
NilPage == [type |-> "nil", lsn |-> 0]

PBtreeHeader0 ==
  [dbname |-> 0, root_address |-> 0, key_size |-> 0, key_type |-> "BINARY",
   flags |-> {}, rec_size |-> 0]

RootPage == [type |-> "broot", lsn |-> 0]

StateBlob(free) == [type |-> "pmstate", lsn |-> 0, free |-> free]

IsHeader(p) == p.type = "header"

\* EnvironmentHeader::set_magic / verify_magic / set_version / get_version
set_magic(h, m1, m2, m3, m4) == [h EXCEPT !.magic = <<m1, m2, m3, m4>>]

verify_magic(h, m1, m2, m3, m4) ==
  /\ h.magic[1] = m1
  /\ h.magic[2] = m2
  /\ h.magic[3] = m3
  /\ h.magic[4] = m4

set_version(h, maj, min, rev, file) ==
  [h EXCEPT !.version = <<maj, min, rev, file>>]

get_version(h, i) == h.version[i + 1]

\* the header page LocalEnvironment::create initialises
NewHeader ==
  set_version(
    set_magic([type |-> "header", lsn |-> 0, magic |-> <<"0", "0", "0", "0">>,
               version |-> <<0, 0, 0, "0">>, pm_blobid |-> 0,
               descs |-> [i \in Slots |-> PBtreeHeader0]],
              "H", "A", "M", "0"),
    CurVersion[1], CurVersion[2], CurVersion[3], CurVersion[4])

\* --------------------------------------------------------------- helpers
Min(S) == CHOOSE x \in S : \A y \in S : x <= y
Max(S) == CHOOSE x \in S : \A y \in S : x >= y

RECURSIVE SetToSeq(_)
SetToSeq(S) ==
  IF S = {} THEN <<>>
  ELSE LET m == Min(S) IN <<m>> \o SetToSeq(S \ {m})


VARIABLES
  file,        \* the data file: address -> page image (persistent)
  journal,     \* the journal: [exists, entries] (persistent)
  lsn,         \* the last log sequence number handed out
  env,         \* [status, flags] of the LocalEnvironment object
  hdr,         \* the header page in memory (m_header's page)
  hdrDirty,    \* its dirty bit
  cache,       \* page manager's cache: address -> image or NilPage
  dirty,       \* addresses of dirty cached pages
  changeset,   \* addresses of the pages in the changeset (0: header)
  dbmap,       \* names of the open databases (get_database_map())
  pm,          \* page manager state: [free, end, needs_flush]
  io,          \* I/O requests the running handler still has to issue
  trace,       \* the requests the running handler has issued so far
  last,        \* the last call: [op, st, ...] and what it was given
  pre,         \* descriptor table, map, changeset, dirty bit before it
  committed,   \* the data file as the completed journal entries define it
  crashInFlush,\* a crash interrupted a changeset flush; not yet reopened
  erased,      \* names erased in this session and not handed out again
  node,        \* the B+tree node (page payload) an operation works on
  other,       \* its sibling, the target of split and source of merge_from
  blobs,       \* the blob manager: blob id -> bytes of the blobs allocated
  call,        \* the last B+tree level call: what it was given and returned
  hist         \* what was put into the node, in the order of the calls

envvars == <<file, journal, lsn, env, hdr, hdrDirty, cache, dirty, changeset,
             dbmap, pm, io, trace, last, pre, committed, crashInFlush,
             erased>>

btvars == <<node, other, blobs, call, hist>>

vars == <<envvars, btvars>>

persistent == <<file, journal, lsn>>
volatile == <<env, hdr, hdrDirty, cache, dirty, changeset, dbmap, pm>>

\* ------------------------------------------------------------------ Init
ZeroHeader ==
  [type |-> "header", lsn |-> 0, magic |-> <<"0", "0", "0", "0">>,
   version |-> <<0, 0, 0, "0">>, pm_blobid |-> 0,
   descs |-> [i \in Slots |-> PBtreeHeader0]]

NoFile == [a \in Addrs |-> NilPage]
EmptyFile == [NoFile EXCEPT ![0] = ZeroHeader]
EmptyCache == [a \in Addrs \ {0} |-> NilPage]
NoPageManager == [free |-> {}, end |-> 0, needs_flush |-> FALSE]
NoCall ==
  [op |-> "none", st |-> HAM_SUCCESS, name |-> 0, name2 |-> 0, flags |-> {},
   params |-> <<>>, slot |-> -1, crashed |-> FALSE, names |-> <<>>]
NoPre ==
  [descs |-> ZeroHeader.descs, dbmap |-> {}, changeset |-> {},
   hdrDirty |-> FALSE]

\* no node is loaded, no blob exists, nothing was called
NoNode == [layout |-> "none"]
NoBlobs == <<>>
NoBtCall == [op |-> "none", st |-> "ok", args |-> <<>>]

NoHistory == [recs |-> <<>>, appended |-> TRUE, calls |-> 0]

BtIdle ==
  /\ node = NoNode
  /\ other = NoNode
  /\ blobs = NoBlobs
  /\ call = NoBtCall
  /\ hist = NoHistory

EnvInit ==
  /\ file = NoFile
  /\ journal = [exists |-> FALSE, entries |-> <<>>]
  /\ lsn = 0
  /\ env = [status |-> "closed", flags |-> {}]
  /\ hdr = NilPage
  /\ hdrDirty = FALSE
  /\ cache = EmptyCache
  /\ dirty = {}
  /\ changeset = {}
  /\ dbmap = {}
  /\ pm = NoPageManager
  /\ io = <<>>
  /\ trace = <<>>
  /\ last = NoCall
  /\ pre = NoPre
  /\ committed = NoFile
  /\ crashInFlush = FALSE
  /\ erased = {}

Init == EnvInit /\ BtIdle

\* -------------------------------------------------- device and journal I/O
\* One request to the device or the journal.  lsn > 0 marks a request that
\* belongs to the changeset flush under that lsn; n is the number of page
\* records the journal entry announces.
Req(k, addr, img, l, n) ==
  [k |-> k, addr |-> addr, img |-> img, lsn |-> l, n |-> n]

Event(r) == [k |-> r.k, addr |-> r.addr, lsn |-> r.lsn, n |-> r.n]

Stamp(img, l) == [img EXCEPT !.lsn = l]

\* the image of page a as the environment holds it in memory
MemPage(h, c, a) == IF a = 0 THEN h ELSE c[a]

\* the pages of a changeset in the order they are logged and written: the
\* header page (address 0) comes last
FlushOrder(cs) == SetToSeq(cs \ {0}) \o (IF 0 \in cs THEN <<0>> ELSE <<>>)

\* Changeset::flush(lsn): (1) append the journal records, (2) fsync the
\* journal, (3) write the pages, (4) the header page last, (5) fsync
ChangesetFlush(l, cs, h, c) ==
  LET order == FlushOrder(cs)
      n == Len(order)
  IN IF n = 0 THEN <<>>
     ELSE [i \in 1..n |->
             Req("jappend", order[i], Stamp(MemPage(h, c, order[i]), l), l, n)]
          \o <<Req("jsync", 0, NilPage, l, n)>>
          \o [i \in 1..n |->
             Req("pwrite", order[i], Stamp(MemPage(h, c, order[i]), l), l, n)]
          \o <<Req("dsync", 0, NilPage, l, n)>>

\* Journal: appending one page record; the first record of an lsn opens the
\* entry, which is complete once it holds the n records it announces
JournalAppend(j, r) ==
  LET es == j.entries
      k == Len(es)
      rec == [addr |-> r.addr, img |-> r.img]
  IN IF k > 0 /\ es[k].lsn = r.lsn /\ Len(es[k].recs) < es[k].n
     THEN [j EXCEPT !.entries[k].recs = Append(@, rec)]
     ELSE [j EXCEPT !.entries =
             Append(@, [lsn |-> r.lsn, n |-> r.n, recs |-> <<rec>>])]

EntryComplete(e) == Len(e.recs) = e.n

\* the page records of the complete entries, in journal order; a partial
\* entry (torn tail) contributes nothing
RECURSIVE JournalRecords(_)
JournalRecords(es) ==
  IF es = <<>> THEN <<>>
  ELSE (IF EntryComplete(Head(es)) THEN Head(es).recs ELSE <<>>)
       \o JournalRecords(Tail(es))

\* Journal::recover: every after-image whose lsn is greater than the lsn of
\* the page on disk is written to its address, in journal order
RECURSIVE Replay(_, _)
Replay(f, recs) ==
  IF recs = <<>> THEN [f |-> f, io |-> <<>>]
  ELSE LET r == Head(recs)
           apply == r.img.lsn > f[r.addr].lsn
           f2 == IF apply THEN [f EXCEPT ![r.addr] = r.img] ELSE f
           rest == Replay(f2, Tail(recs))
       IN [f |-> rest.f,
           io |-> (IF apply THEN <<Req("rwrite", r.addr, r.img, 0, 0)>>
                   ELSE <<>>) \o rest.io]

RECURSIVE ApplyRecs(_, _)
ApplyRecs(f, recs) ==
  IF recs = <<>> THEN f
  ELSE ApplyRecs([f EXCEPT ![Head(recs).addr] = Head(recs).img], Tail(recs))

\* the effect of one request on the data file and on the journal
FileAfter(f, r) ==
  CASE r.k \in {"pwrite", "rwrite"} -> [f EXCEPT ![r.addr] = r.img]
    [] r.k = "dcreate" -> EmptyFile
    [] OTHER -> f

JournalAfter(j, r) ==
  CASE r.k = "jappend" -> JournalAppend(j, r)
    [] r.k \in {"jcreate", "jclear"} -> [exists |-> TRUE, entries |-> <<>>]
    [] OTHER -> j

\* what the completed journal entries (and the writes made outside of any
\* changeset) say the data file holds
CommittedAfter(cm, j2, r) ==
  CASE r.k = "jappend" ->
         LET e == j2.entries[Len(j2.entries)]
         IN IF EntryComplete(e) THEN ApplyRecs(cm, e.recs) ELSE cm
    [] r.k = "pwrite" /\ r.lsn = 0 -> [cm EXCEPT ![r.addr] = r.img]
    [] r.k = "dcreate" -> EmptyFile
    [] OTHER -> cm

\* the handler issues its next request
IoStep ==
  /\ io # <<>>
  /\ LET r == Head(io)
         j2 == JournalAfter(journal, r)
     IN /\ file' = FileAfter(file, r)
        /\ journal' = j2
        /\ committed' = CommittedAfter(committed, j2, r)
        /\ trace' = Append(trace, Event(r))
        /\ io' = Tail(io)
        /\ crashInFlush' = (crashInFlush /\ Tail(io) # <<>>)
  /\ UNCHANGED <<lsn, volatile, last, pre, erased>>
  /\ UNCHANGED btvars

\* ----------------------------------------------------- calls and snapshots
Running == env.status = "open" /\ io = <<>>

Descs == IF IsHeader(hdr) THEN hdr.descs ELSE ZeroHeader.descs

Snapshot ==
  [descs |-> Descs, dbmap |-> dbmap, changeset |-> changeset,
   hdrDirty |-> hdrDirty]

Call(op, st, name, name2, flags, params, slot) ==
  [op |-> op, st |-> st, name |-> name, name2 |-> name2, flags |-> flags,
   params |-> params, slot |-> slot, crashed |-> FALSE, names |-> <<>>]

\* LocalEnvironment::mark_header_page_dirty: the header page becomes dirty
\* and, with recovery enabled, part of the changeset
mark_header_page_dirty(cs, flags) ==
  IF EF_RECOVERY \in flags THEN cs \cup {0} ELSE cs

\* LocalEnvironment::get_incremented_lsn
get_incremented_lsn(l) == l + 1

FlushIfRecovery_PagesOnly(flags, l, cs, h, c) ==
  IF EF_RECOVERY \in flags
  THEN SelectSeq(ChangesetFlush(get_incremented_lsn(l), cs, h, c),
                 LAMBDA r : r.k \in {"pwrite", "dsync"})
  ELSE <<>>

\* "if (get_flags() & HAM_ENABLE_RECOVERY)
\*    get_changeset().flush(get_incremented_lsn());"
FlushIfRecovery(flags, l, cs, h, c) ==
  IF EF_RECOVERY \in flags
  THEN ChangesetFlush(get_incremented_lsn(l), cs, h, c)
  ELSE <<>>

\* the in-memory side of a changeset flush: the pages carry the lsn, are
\* clean, and leave the changeset
StampAll(c, cs, l) ==
  [a \in DOMAIN c |-> IF a \in cs THEN Stamp(c[a], l) ELSE c[a]]

\* ------------------------------------------------------------ page manager
\* PageManager::alloc_page: the lowest free address is reused, otherwise the
\* file grows by one page
AllocAddr(p, flags) ==
  IF p.free # {} /\ EF_IN_MEMORY \notin flags THEN Min(p.free) ELSE p.end + 1

AfterAlloc(p, a) ==
  [free |-> p.free \ {a},
   end |-> IF a > p.end THEN a ELSE p.end,
   needs_flush |-> p.needs_flush \/ a \in p.free]

\* PageManager::free: the address moves to the freelist
AfterFree(p, a) ==
  [p EXCEPT !.free = @ \cup {a}, !.needs_flush = TRUE]

\* ----------------------------------------------------------- create_db
DbCreateMask ==
  {HAM_FORCE_RECORDS_INLINE, HAM_FLUSH_WHEN_COMMITTED,
   HAM_ENABLE_DUPLICATE_KEYS, HAM_RECORD_NUMBER}

DbOpenMask ==
  {HAM_FORCE_RECORDS_INLINE, HAM_FLUSH_WHEN_COMMITTED, EF_READ_ONLY}

Param(name, value) == [name |-> name, value |-> value]

\* the parameter loop of create_db: the first offending parameter ends it
RECURSIVE ParseCreateParams(_, _, _)
ParseCreateParams(ps, flags, acc) ==
  IF ps = <<>> THEN acc
  ELSE LET p == Head(ps) IN
    CASE p.name \in {"HAM_PARAM_RECORD_COMPRESSION",
                     "HAM_PARAM_KEY_COMPRESSION"} ->
           [acc EXCEPT !.st = "HAM_NOT_IMPLEMENTED"]
      [] p.name = "HAM_PARAM_KEY_TYPE" ->
           ParseCreateParams(Tail(ps), flags,
                             [acc EXCEPT !.key_type = p.value])
      [] p.name = "HAM_PARAM_KEY_SIZE" ->
           IF p.value = 0 THEN ParseCreateParams(Tail(ps), flags, acc)
           ELSE IF p.value > 65535
             THEN [acc EXCEPT !.st = "HAM_INV_KEY_SIZE"]
           ELSE IF HAM_RECORD_NUMBER \in flags /\ p.value > 0
                   /\ p.value < RecnoKeySize
             THEN [acc EXCEPT !.st = "HAM_INV_KEY_SIZE",
                              !.key_size = p.value]
           ELSE ParseCreateParams(Tail(ps), flags,
                                  [acc EXCEPT !.key_size = p.value])
      [] p.name = "HAM_PARAM_RECORD_SIZE" ->
           ParseCreateParams(Tail(ps), flags,
                             [acc EXCEPT !.rec_size = p.value])
      [] OTHER -> [acc EXCEPT !.st = "HAM_INV_PARAMETER"]

CreateDefaults ==
  [st |-> HAM_SUCCESS, key_type |-> "BINARY",
   key_size |-> HAM_KEY_SIZE_UNLIMITED,
   rec_size |-> HAM_RECORD_SIZE_UNLIMITED]

\* the key types create_db refuses together with HAM_RECORD_NUMBER
RecnoRejectedTypes == {"UINT8", "UINT16", "UINT32", "REAL32", "REAL64"}

RecnoKeyType_Keep(flags, key_type) == key_type

\* "if (flags & HAM_RECORD_NUMBER) key_type = HAM_TYPE_UINT64;"
RecnoKeyType(flags, key_type) ==
  IF HAM_RECORD_NUMBER \in flags THEN "UINT64" ELSE key_type

FreeSlot_Highest(descs) ==
  LET free == {i \in Slots : descs[i].dbname = 0}
  IN IF free = {} THEN MaxDatabases ELSE Max(free)

\* "find a free slot in the PBtreeHeader array": the first slot whose name
\* is 0, or max_databases when there is none
FreeSlot(descs) ==
  LET free == {i \in Slots : descs[i].dbname = 0}
  IN IF free = {} THEN MaxDatabases ELSE Min(free)

\* LocalDatabase::create: a key type of fixed width fixes the key size
FixedKeySize(key_type, key_size) ==
  CASE key_type = "UINT8" -> 1
    [] key_type = "UINT16" -> 2
    [] key_type \in {"UINT32", "REAL32"} -> 4
    [] key_type \in {"UINT64", "REAL64"} -> 8
    [] OTHER -> key_size

\* BtreeIndex::flush_descriptor
flush_descriptor(d, rt_flags, name, key_size, rec_size, key_type, root, flags) ==
  IF EF_READ_ONLY \in rt_flags THEN d
  ELSE [dbname |-> name, root_address |-> root, key_size |-> key_size,
        key_type |-> key_type, flags |-> flags, rec_size |-> rec_size]

\* the status create_db returns; dbst is what LocalDatabase::create returns
CreateDbStatus(dbname, flags, params, dbst) ==
  LET p == ParseCreateParams(params, flags, CreateDefaults)
  IN CASE EF_READ_ONLY \in env.flags -> "HAM_WRITE_PROTECTED"
       [] p.st # HAM_SUCCESS -> p.st
       [] p.key_type \in RecnoRejectedTypes /\ HAM_RECORD_NUMBER \in flags ->
            "HAM_INV_PARAMETER"
       [] flags \ DbCreateMask # {} -> "HAM_INV_PARAMETER"
       [] \E i \in Slots : Descs[i].dbname = dbname ->
            "HAM_DATABASE_ALREADY_EXISTS"
       [] FreeSlot(Descs) = MaxDatabases -> "HAM_LIMITS_REACHED"
       [] OTHER -> dbst

create_db(dbname, flags, params, dbst) ==
  /\ Running
  /\ LET st == CreateDbStatus(dbname, flags, params, dbst)
         p == ParseCreateParams(params, flags, CreateDefaults)
         key_type == RecnoKeyType(flags, p.key_type)
         key_size == FixedKeySize(key_type, p.key_size)
         dbi == FreeSlot(Descs)
         \* every check before "db->create(...)" has passed
         reached == CreateDbStatus(dbname, flags, params, HAM_SUCCESS)
                      = HAM_SUCCESS
         root == AllocAddr(pm, env.flags)
         l == get_incremented_lsn(lsn)
     IN /\ last' = Call("create_db", st, dbname, 0, flags, params,
                        IF st = HAM_SUCCESS THEN dbi ELSE -1)
        /\ pre' = Snapshot
        /\ trace' = <<>>
        /\ IF st = HAM_SUCCESS
           THEN \* BtreeIndex::create, mark_header_page_dirty, the flush
                LET d == flush_descriptor(
                           [Descs[dbi] EXCEPT !.dbname = dbname],
                           env.flags \cup flags, dbname, key_size,
                           p.rec_size, key_type, root, flags)
                    h == [hdr EXCEPT !.descs[dbi] = d]
                    c == [cache EXCEPT ![root] = RootPage]
                    cs == IF EF_RECOVERY \in env.flags
                          THEN mark_header_page_dirty(
                                 changeset \cup {root}, env.flags)
                          ELSE changeset
                    rec == EF_RECOVERY \in env.flags
                IN /\ root <= NPages
                   /\ rec => lsn < MaxLsn
                   /\ io' = FlushIfRecovery(env.flags, lsn, cs, h, c)
                   /\ hdr' = IF rec THEN Stamp(h, l) ELSE h
                   /\ cache' = IF rec THEN StampAll(c, cs, l) ELSE c
                   /\ hdrDirty' = ~rec
                   /\ dirty' = IF rec THEN dirty \ cs ELSE dirty \cup {root}
                   /\ changeset' = IF rec THEN {} ELSE changeset
                   /\ lsn' = IF rec THEN l ELSE lsn
                   /\ pm' = AfterAlloc(pm, root)
                   /\ dbmap' = dbmap \cup {dbname}
                   /\ erased' = erased \ {dbname}
           ELSE IF reached
           THEN \* the slot already carries the name: "set_dbname(dbname)"
                /\ hdr' = [hdr EXCEPT !.descs[dbi].dbname = dbname]
                /\ erased' = erased \ {dbname}
                /\ io' = <<>>
                /\ UNCHANGED <<cache, hdrDirty, dirty, changeset, lsn, pm,
                               dbmap>>
           ELSE /\ io' = <<>>
                /\ UNCHANGED <<hdr, cache, hdrDirty, dirty, changeset, lsn,
                               pm, dbmap, erased>>
  /\ UNCHANGED <<file, journal, env, committed, crashInFlush>>
  /\ UNCHANGED btvars

\* -------------------------------------------------------------- open_db
\* "search for a database with this name": the first slot that carries it,
\* or max_databases
FindSlot(descs, dbname) ==
  LET found == {i \in Slots : descs[i].dbname # 0 /\ descs[i].dbname = dbname}
  IN IF found = {} THEN MaxDatabases ELSE Min(found)

\* the status open_db returns; dbst is what LocalDatabase::open returns
OpenDbStatus(descs, map, dbname, flags, params, dbst) ==
  CASE flags \ DbOpenMask # {} -> "HAM_INV_PARAMETER"
    [] params # <<>> ->
         IF Head(params).name \in {"HAM_PARAM_RECORD_COMPRESSION",
                                   "HAM_PARAM_KEY_COMPRESSION"}
         THEN "HAM_NOT_IMPLEMENTED" ELSE "HAM_INV_PARAMETER"
    [] dbname \in map -> "HAM_DATABASE_ALREADY_OPEN"
    [] FindSlot(descs, dbname) = MaxDatabases -> "HAM_DATABASE_NOT_FOUND"
    [] OTHER -> dbst

open_db(dbname, flags, params, dbst) ==
  /\ Running
  /\ LET st == OpenDbStatus(Descs, dbmap, dbname, flags, params, dbst)
     IN /\ last' = Call("open_db", st, dbname, 0, flags, params,
                        IF st = HAM_SUCCESS THEN FindSlot(Descs, dbname)
                        ELSE -1)
        /\ dbmap' = IF st = HAM_SUCCESS THEN dbmap \cup {dbname} ELSE dbmap
  /\ pre' = Snapshot
  /\ trace' = <<>>
  /\ UNCHANGED <<persistent, env, hdr, hdrDirty, cache, dirty, changeset, pm,
                 io, committed, crashInFlush, erased>>
  /\ UNCHANGED btvars

\* ham_db_close: the database leaves the environment's map
db_close(dbname) ==
  /\ Running
  /\ dbname \in dbmap
  /\ dbmap' = dbmap \ {dbname}
  /\ last' = Call("db_close", HAM_SUCCESS, dbname, 0, {}, <<>>, -1)
  /\ pre' = Snapshot
  /\ trace' = <<>>
  /\ UNCHANGED <<persistent, env, hdr, hdrDirty, cache, dirty, changeset, pm,
                 io, committed, crashInFlush, erased>>
  /\ UNCHANGED btvars

\* ------------------------------------------------------------- erase_db
EraseName_Keep(descs, dbname) == descs

\* "if (name == desc->get_dbname()) { desc->set_dbname(0); ... }" for the
\* first slot that carries the name
EraseName(descs, dbname) ==
  LET found == {i \in Slots : descs[i].dbname = dbname}
  IN IF found = {} THEN descs
     ELSE [descs EXCEPT ![Min(found)].dbname = 0]

EraseDbStatus(dbname, dbst) ==
  CASE dbname \in dbmap -> "HAM_DATABASE_ALREADY_OPEN"
    [] EF_IN_MEMORY \in env.flags ->
         IF \E i \in Slots : Descs[i].dbname = dbname
         THEN HAM_SUCCESS ELSE "HAM_DATABASE_NOT_FOUND"
    [] OTHER -> OpenDbStatus(Descs, dbmap, dbname, {}, <<>>, dbst)

PurgesOnly_Always(flags) == TRUE

\* "if (get_flags() & HAM_IN_MEMORY)": in an in-memory environment "it's
\* enough to purge the database from the environment header"
PurgesOnly(flags) == EF_IN_MEMORY \in flags

erase_db(dbname, dbst) ==
  /\ Running
  /\ LET st == EraseDbStatus(dbname, dbst)
         rec == EF_RECOVERY \in env.flags
         l == get_incremented_lsn(lsn)
         dbi == FindSlot(Descs, dbname)
     IN /\ last' = Call("erase_db", st, dbname, 0, {}, <<>>,
                        IF st = HAM_SUCCESS THEN dbi ELSE -1)
        /\ IF st # HAM_SUCCESS
           THEN /\ io' = <<>>
                /\ UNCHANGED <<hdr, hdrDirty, cache, dirty, changeset, lsn,
                               pm, erased>>
           ELSE IF PurgesOnly(env.flags)
           THEN \* the name is purged from the header, nothing else happens
                /\ hdr' = [hdr EXCEPT !.descs = EraseName(Descs, dbname)]
                /\ erased' = erased \cup {dbname}
                /\ io' = <<>>
                /\ UNCHANGED <<hdrDirty, cache, dirty, changeset, lsn, pm>>
           ELSE \* open_db, db->erase_me(), set_dbname(0), the flush, close
                LET root == Descs[dbi].root_address
                    h == [hdr EXCEPT !.descs = EraseName(Descs, dbname)]
                    c == IF root = 0 THEN cache
                         ELSE [cache EXCEPT ![root] = NilPage]
                    cs == mark_header_page_dirty(changeset \ {root},
                                                 env.flags)
                IN /\ rec => lsn < MaxLsn
                   /\ io' = FlushIfRecovery(env.flags, lsn, cs, h, c)
                   /\ hdr' = IF rec THEN Stamp(h, l) ELSE h
                   /\ cache' = IF rec THEN StampAll(c, cs, l) ELSE c
                   /\ hdrDirty' = ~rec
                   /\ dirty' = (dirty \ {root}) \ (IF rec THEN cs ELSE {})
                   /\ changeset' = IF rec THEN {} ELSE changeset
                   /\ lsn' = IF rec THEN l ELSE lsn
                   /\ pm' = IF root = 0 THEN pm ELSE AfterFree(pm, root)
                   /\ erased' = erased \cup {dbname}
  /\ pre' = Snapshot
  /\ trace' = <<>>
  /\ UNCHANGED <<file, journal, env, dbmap, committed, crashInFlush>>
  /\ UNCHANGED btvars

\* ------------------------------------------------------------ rename_db
\* the loop of rename_db over the descriptors: the status and the slot of
\* the old name
RenameDbStatus(descs, oldname, newname) ==
  CASE \E i \in Slots : descs[i].dbname = newname ->
         "HAM_DATABASE_ALREADY_EXISTS"
    [] ~\E i \in Slots : descs[i].dbname = oldname ->
         "HAM_DATABASE_NOT_FOUND"
    [] OTHER -> HAM_SUCCESS

RenameSlot(descs, oldname) ==
  Max({i \in Slots : descs[i].dbname = oldname})

rename_db(oldname, newname) ==
  /\ Running
  /\ LET st == RenameDbStatus(Descs, oldname, newname)
         rec == EF_RECOVERY \in env.flags
         l == get_incremented_lsn(lsn)
     IN /\ last' = Call("rename_db", st, oldname, newname, {}, <<>>,
                        IF st = HAM_SUCCESS THEN RenameSlot(Descs, oldname)
                        ELSE -1)
        /\ IF st # HAM_SUCCESS
           THEN /\ io' = <<>>
                /\ UNCHANGED <<hdr, hdrDirty, cache, dirty, changeset, lsn,
                               dbmap, erased>>
           ELSE LET slot == RenameSlot(Descs, oldname)
                    h == [hdr EXCEPT !.descs[slot].dbname = newname]
                    cs == mark_header_page_dirty(changeset, env.flags)
                IN /\ rec => lsn < MaxLsn
                   /\ io' = FlushIfRecovery(env.flags, lsn, cs, h, cache)
                   /\ hdr' = IF rec THEN Stamp(h, l) ELSE h
                   /\ cache' = IF rec THEN StampAll(cache, cs, l) ELSE cache
                   /\ hdrDirty' = ~rec
                   /\ dirty' = IF rec THEN dirty \ cs ELSE dirty
                   /\ changeset' = IF rec THEN {} ELSE changeset
                   /\ lsn' = IF rec THEN l ELSE lsn
                   /\ dbmap' = IF oldname \in dbmap
                               THEN (dbmap \ {oldname}) \cup {newname}
                               ELSE dbmap
                   /\ erased' = erased \ {newname}
  /\ pre' = Snapshot
  /\ trace' = <<>>
  /\ UNCHANGED <<file, journal, env, pm, committed, crashInFlush>>
  /\ UNCHANGED btvars

\* --------------------------------------------------- get_database_names
\* the names of the slots in slot order, skipping the free ones
RECURSIVE NamesFrom(_, _)
NamesFrom(descs, i) ==
  IF i >= MaxDatabases THEN <<>>
  ELSE (IF descs[i].dbname = 0 THEN <<>> ELSE <<descs[i].dbname>>)
       \o NamesFrom(descs, i + 1)

get_database_names(max_names) ==
  /\ Running
  /\ LET all == NamesFrom(Descs, 0)
         st == IF Len(all) > max_names THEN "HAM_LIMITS_REACHED"
               ELSE HAM_SUCCESS
     IN last' = [Call("get_database_names", st, 0, 0, {}, <<>>, -1)
                   EXCEPT !.names = SubSeq(all, 1, IF Len(all) > max_names
                                                   THEN max_names
                                                   ELSE Len(all))]
  /\ pre' = Snapshot
  /\ trace' = <<>>
  /\ UNCHANGED <<persistent, volatile, io, committed, crashInFlush, erased>>
  /\ UNCHANGED btvars

\* ----------------------------------------------------- create (environment)
ResetMemory ==
  /\ hdr' = NilPage
  /\ hdrDirty' = FALSE
  /\ cache' = EmptyCache
  /\ dirty' = {}
  /\ changeset' = {}
  /\ dbmap' = {}
  /\ pm' = NoPageManager

\* LocalEnvironment::create
create(flags) ==
  /\ env.status = "closed"
  /\ io = <<>>
  /\ LET inmem == EF_IN_MEMORY \in flags
         rec == EF_RECOVERY \in flags
     IN /\ env' = [status |-> "open", flags |-> flags]
        /\ hdr' = NewHeader
        /\ hdrDirty' = ~rec
        /\ io' = (IF inmem THEN <<>>
                  ELSE <<Req("dcreate", 0, NilPage, 0, 0)>>)
                 \o (IF rec
                     THEN <<Req("jcreate", 0, NilPage, 0, 0),
                            Req("pwrite", 0, NewHeader, 0, 0)>>
                     ELSE <<>>)
  /\ cache' = EmptyCache
  /\ dirty' = {}
  /\ changeset' = {}
  /\ dbmap' = {}
  /\ pm' = NoPageManager
  /\ last' = Call("create", HAM_SUCCESS, 0, 0, flags, <<>>, -1)
  /\ pre' = Snapshot
  /\ trace' = <<>>
  /\ erased' = {}
  /\ UNCHANGED <<persistent, committed, crashInFlush>>
  /\ UNCHANGED btvars

\* ------------------------------------------------------- open (environment)
\* the checks of the first 512 bytes: the magic, then the version
HeaderCheck(fake) ==
  IF ~verify_magic(fake, "H", "A", "M", "0") THEN "HAM_INV_FILE_HEADER"
  ELSE IF get_version(fake, 3) # "HAM_FILE_VERSION"
    THEN "HAM_INV_FILE_VERSION"
  ELSE IF get_version(fake, 0) = 1 /\ get_version(fake, 1) = 0
          /\ get_version(fake, 2) <= 9
    THEN "HAM_INV_FILE_VERSION"
  ELSE HAM_SUCCESS

recover_NoReplay(flags, j) ==
  [st |-> IF j.exists /\ j.entries # <<>> /\ EF_AUTO_RECOVERY \notin flags
          THEN "HAM_NEED_RECOVERY" ELSE HAM_SUCCESS,
   create |-> ~j.exists,
   replay |-> FALSE]

recover_Always(flags, j) ==
  [st |-> HAM_SUCCESS,
   create |-> ~j.exists,
   replay |-> j.exists /\ j.entries # <<>>]

\* LocalEnvironment::recover: the journal is opened, or created when it
\* does not exist; a journal that is not empty is replayed with
\* HAM_AUTO_RECOVERY and is HAM_NEED_RECOVERY without
recover(flags, j) ==
  [st |-> IF j.exists /\ j.entries # <<>> /\ EF_AUTO_RECOVERY \notin flags
          THEN "HAM_NEED_RECOVERY" ELSE HAM_SUCCESS,
   create |-> ~j.exists,
   replay |-> j.exists /\ j.entries # <<>> /\ EF_AUTO_RECOVERY \in flags]

\* the requests of recover(): Journal::create, Journal::recover (the replay
\* and the clearing of the journal that ends it)
RecoverIo(r, f, j) ==
  (IF r.create THEN <<Req("jcreate", 0, NilPage, 0, 0)>> ELSE <<>>)
  \o (IF r.replay
      THEN <<Req("recover", 0, NilPage, 0, 0)>>
           \o Replay(f, JournalRecords(j.entries)).io
           \o <<Req("jclear", 0, NilPage, 0, 0)>>
      ELSE <<>>)

\* open(), after the header page was read: recover(flags), then the state
\* of the page manager is loaded
OpenIo(flags, r, f, j, blobid) ==
  (IF EF_RECOVERY \in flags THEN RecoverIo(r, f, j) ELSE <<>>)
  \o (IF blobid # 0 THEN <<Req("load_state", blobid, NilPage, 0, 0)>> ELSE <<>>)

\* the highest page address the file holds
FileEnd(f) ==
  LET used == {a \in 1..NPages : f[a] # NilPage}
  IN IF used = {} THEN 0 ELSE Max(used)

\* PageManager::load_state
LoadState(f, blobid) ==
  IF blobid # 0 /\ f[blobid].type = "pmstate" THEN f[blobid].free ELSE {}

open(flags) ==
  /\ env.status = "closed"
  /\ io = <<>>
  /\ file[0] # NilPage
  /\ LET hst == HeaderCheck(file[0])
         rec == EF_RECOVERY \in flags
         r == recover(flags, journal)
         st == IF hst # HAM_SUCCESS THEN hst
               ELSE IF rec THEN r.st ELSE HAM_SUCCESS
         f == IF rec /\ r.replay
              THEN Replay(file, JournalRecords(journal.entries)).f
              ELSE file
         reqs == OpenIo(flags, r, file, journal, f[0].pm_blobid)
     IN /\ last' = [Call("open", st, 0, 0, flags, <<>>, -1)
                      EXCEPT !.crashed = crashInFlush]
        /\ IF st # HAM_SUCCESS
           THEN \* the device is closed; nothing else was set up
                /\ ResetMemory
                /\ io' = <<>>
                /\ UNCHANGED <<env, committed, crashInFlush>>
           ELSE /\ env' = [status |-> "open", flags |-> flags]
                /\ hdr' = f[0]
                /\ hdrDirty' = FALSE
                /\ cache' = EmptyCache
                /\ dirty' = {}
                /\ changeset' = {}
                /\ dbmap' = {}
                /\ pm' = [free |-> LoadState(f, f[0].pm_blobid),
                          end |-> FileEnd(f), needs_flush |-> FALSE]
                /\ io' = reqs
                /\ committed' = IF crashInFlush THEN committed ELSE f
                /\ crashInFlush' = (crashInFlush /\ reqs # <<>>)
  /\ pre' = Snapshot
  /\ trace' = <<>>
  /\ erased' = {}
  /\ UNCHANGED persistent
  /\ UNCHANGED btvars

\* ------------------------------------------------------------ flush, close
\* Page::flush of the cached dirty pages in address order, outside of any
\* changeset
PageWrites(c, d) ==
  LET order == SetToSeq(d)
  IN [i \in 1..Len(order) |-> Req("pwrite", order[i], c[order[i]], 0, 0)]

\* a device that was opened read-only takes no page writes
DeviceReqs(flags, reqs) ==
  IF EF_READ_ONLY \in flags
  THEN SelectSeq(reqs, LAMBDA r : r.k # "pwrite")
  ELSE reqs

\* LocalEnvironment::flush: the header page if it is dirty, then all other
\* pages, then the device
FlushIo(h, hd, c, d) ==
  (IF hd THEN <<Req("pwrite", 0, h, 0, 0)>> ELSE <<>>)
  \o PageWrites(c, d)
  \o <<Req("dsync", 0, NilPage, 0, 0)>>

flush ==
  /\ Running
  /\ IF EF_IN_MEMORY \in env.flags
     THEN /\ io' = <<>>
          /\ UNCHANGED <<hdrDirty, dirty>>
     ELSE /\ io' = DeviceReqs(env.flags, FlushIo(hdr, hdrDirty, cache, dirty))
          /\ hdrDirty' = FALSE
          /\ dirty' = {}
  /\ last' = Call("flush", HAM_SUCCESS, 0, 0, {}, <<>>, -1)
  /\ pre' = Snapshot
  /\ trace' = <<>>
  /\ UNCHANGED <<persistent, env, hdr, cache, changeset, dbmap, pm,
                 committed, crashInFlush, erased>>
  /\ UNCHANGED btvars

\* PageManager::store_state: the blob id of the stored freelist, 0 when
\* there is nothing to store
StoreStateId(p) == IF p.free = {} THEN 0 ELSE StatePage

\* LocalEnvironment::close, from "store the state of the PageManager" to the
\* closing of the journal
CloseIo(flags, cflags, l, h, hd, c, d, cs, p) ==
  LET store == EF_IN_MEMORY \notin flags /\ EF_READ_ONLY \notin flags
      rec == EF_RECOVERY \in flags
      wr == store /\ p.needs_flush /\ p.free # {}
      c1 == IF wr THEN [c EXCEPT ![StatePage] = StateBlob(p.free)] ELSE c
      d1 == IF wr THEN d \cup {StatePage} ELSE d
      cs1 == IF wr /\ rec THEN cs \cup {StatePage} ELSE cs
      newid == StoreStateId(p)
      h1 == IF store /\ newid # h.pm_blobid
            THEN [h EXCEPT !.pm_blobid = newid] ELSE h
      hd1 == hd \/ h1 # h
      cs2 == IF store /\ rec /\ hd1 THEN cs1 \cup {0} ELSE cs1
      fl == store /\ rec /\ cs2 # {}
      csio == IF fl THEN ChangesetFlush(get_incremented_lsn(l), cs2, h1, c1)
              ELSE <<>>
      d2 == IF fl THEN d1 \ cs2 ELSE d1
      hd2 == IF fl /\ 0 \in cs2 THEN FALSE ELSE hd1
      pmio == IF EF_IN_MEMORY \in flags THEN <<>> ELSE PageWrites(c1, d2)
      hio == IF store /\ hd2 THEN <<Req("pwrite", 0, h1, 0, 0)>> ELSE <<>>
      dio == IF EF_IN_MEMORY \notin flags /\ EF_READ_ONLY \notin flags
             THEN <<Req("dsync", 0, NilPage, 0, 0)>> ELSE <<>>
      jio == IF rec /\ HAM_DONT_CLEAR_LOG \notin cflags
             THEN <<Req("jclear", 0, NilPage, 0, 0)>> ELSE <<>>
  IN [io |-> DeviceReqs(flags, csio \o pmio \o hio \o dio \o jio),
      flushed |-> fl]

close(cflags) ==
  /\ Running
  /\ LET r == CloseIo(env.flags, cflags, lsn, hdr, hdrDirty, cache, dirty,
                      changeset, pm)
     IN /\ r.flushed => lsn < MaxLsn
        /\ io' = r.io
        /\ lsn' = IF r.flushed THEN get_incremented_lsn(lsn) ELSE lsn
  /\ env' = [status |-> "closed", flags |-> {}]
  /\ ResetMemory
  /\ last' = Call("close", HAM_SUCCESS, 0, 0, cflags, <<>>, -1)
  /\ pre' = Snapshot
  /\ trace' = <<>>
  /\ erased' = {}
  /\ UNCHANGED <<file, journal, committed, crashInFlush>>
  /\ UNCHANGED btvars

\* ------------------------------------------------------------ environment
\* the process dies: what is in memory is lost, the requests not yet issued
\* are never issued
Crash ==
  /\ env.status = "open" \/ io # <<>>
  /\ crashInFlush' = (crashInFlush \/ \E i \in 1..Len(io) : io[i].lsn > 0)
  /\ env' = [status |-> "closed", flags |-> {}]
  /\ ResetMemory
  /\ io' = <<>>
  /\ trace' = <<>>
  /\ last' = Call("crash", HAM_SUCCESS, 0, 0, {}, <<>>, -1)
  /\ pre' = NoPre
  /\ erased' = {}
  /\ UNCHANGED <<persistent, committed>>
  /\ UNCHANGED btvars

\* a file of another origin: the header bytes of the closed file change
ForeignMagics ==
  {<<"H", "A", "M", "0">>, <<"X", "A", "M", "0">>, <<"H", "A", "M", "X">>}

ForeignVersions ==
  {CurVersion, <<0, 9, 9, "HAM_FILE_VERSION">>,
   <<1, 0, 8, "HAM_FILE_VERSION">>, <<1, 0, 9, "HAM_FILE_VERSION">>,
   <<1, 0, 10, "HAM_FILE_VERSION">>, <<2, 1, 8, "other">>}

Tamper(m, v) ==
  /\ env.status = "closed"
  /\ io = <<>>
  /\ ~crashInFlush
  /\ IsHeader(file[0])
  /\ file' = [file EXCEPT ![0] =
                set_version(set_magic(@, m[1], m[2], m[3], m[4]),
                            v[1], v[2], v[3], v[4])]
  /\ last' = Call("tamper", HAM_SUCCESS, 0, 0, {}, <<>>, -1)
  /\ UNCHANGED <<journal, lsn, volatile, io, trace, pre, committed,
                 crashInFlush, erased>>
  /\ UNCHANGED btvars

\* ------------------------------------------------------------------ specs
CloseFlags == {{}, {HAM_DONT_CLEAR_LOG}}
RecoveryOpenFlags == {{EF_RECOVERY}, {EF_RECOVERY, EF_AUTO_RECOVERY}}

\* environments opened with recovery enabled, and crashes
Next ==
  \/ create({EF_RECOVERY})
  \/ \E f \in RecoveryOpenFlags : open(f)
  \/ \E f \in CloseFlags : close(f)
  \/ \E n \in Names : create_db(n, {}, <<>>, HAM_SUCCESS)
  \/ \E n \in Names : erase_db(n, HAM_SUCCESS)
  \/ \E n \in Names, m \in Names : rename_db(n, m)
  \/ IoStep
  \/ Crash

Spec == Init /\ [][Next]_vars

\* files created with and without a journal, opened with recovery enabled
NextRecover ==
  \/ \E f \in {{}, {EF_RECOVERY}} : create(f)
  \/ \E f \in RecoveryOpenFlags : open(f)
  \/ \E f \in CloseFlags : close(f)
  \/ \E n \in {1, MaxName} : create_db(n, {}, <<>>, HAM_SUCCESS)
  \/ \E n \in {1, MaxName} : erase_db(n, HAM_SUCCESS)
  \/ IoStep
  \/ Crash

SpecRecover == Init /\ [][NextRecover]_vars

\* file-based and in-memory environments without recovery
ApiCreateFlags == {{}, {EF_IN_MEMORY}}
DbStatus == {HAM_SUCCESS, "HAM_INV_KEY_SIZE"}

\* flags and parameters of a database that are refused: a flag outside of
\* the mask, a parameter that is not known
ApiDbArgs ==
  {<<{"HAM_ENABLE_TRANSACTIONS"}, <<>>>>,
   <<{}, <<Param("HAM_PARAM_PAGE_SIZE", 1024)>>>>}

NextApi ==
  \/ \E f \in ApiCreateFlags : create(f)
  \/ \E n \in Names, st \in DbStatus : create_db(n, {}, <<>>, st)
  \/ \E a \in ApiDbArgs : create_db(MaxName, a[1], a[2], HAM_SUCCESS)
  \/ \E n \in Names, st \in DbStatus : open_db(n, {}, <<>>, st)
  \/ \E a \in ApiDbArgs : open_db(MaxName, a[1], a[2], HAM_SUCCESS)
  \/ \E n \in Names : db_close(n)
  \/ \E n \in Names : erase_db(n, HAM_SUCCESS)
  \/ \E n \in Names, m \in Names : rename_db(n, m)
  \/ \E k \in 0..MaxDatabases : get_database_names(k)
  \/ IoStep

SpecApi == Init /\ [][NextApi]_vars

\* the names in the descriptor table, where every database can be created
NextNames ==
  \/ \E f \in ApiCreateFlags : create(f)
  \/ \E n \in Names : create_db(n, {}, <<>>, HAM_SUCCESS)
  \/ \E n \in Names : open_db(n, {}, <<>>, HAM_SUCCESS)
  \/ \E n \in Names : db_close(n)
  \/ \E n \in Names : erase_db(n, HAM_SUCCESS)
  \/ \E n \in Names, m \in Names : rename_db(n, m)
  \/ \E k \in 0..MaxDatabases : get_database_names(k)
  \/ IoStep

SpecNames == Init /\ [][NextNames]_vars

\* a file that is written, closed and opened read-only
NextReadOnly ==
  \/ create({})
  \/ open({EF_READ_ONLY})
  \/ close({})
  \/ \E n \in Names : create_db(n, {}, <<>>, HAM_SUCCESS)
  \/ \E n \in Names : erase_db(n, HAM_SUCCESS)
  \/ \E n \in Names, m \in Names : rename_db(n, m)
  \/ IoStep

SpecReadOnly == Init /\ [][NextReadOnly]_vars

\* flush() of a file-based environment without recovery
NextFlush ==
  \/ create({})
  \/ open({})
  \/ close({})
  \/ flush
  \/ \E n \in Names : create_db(n, {}, <<>>, HAM_SUCCESS)
  \/ \E n \in Names : erase_db(n, HAM_SUCCESS)
  \/ IoStep

SpecFlush == Init /\ [][NextFlush]_vars

\* the flags and parameters of create_db, in an in-memory environment
ParamArgs ==
  {<<{HAM_RECORD_NUMBER}, <<Param("HAM_PARAM_KEY_TYPE", t)>>>> :
     t \in KeyTypes}
  \cup {<<{HAM_RECORD_NUMBER}, <<Param("HAM_PARAM_KEY_SIZE", k)>>>> :
          k \in {4, 8}}
  \cup {<<{HAM_RECORD_NUMBER}, <<>>>>,
        <<{HAM_RECORD_NUMBER},
          <<Param("HAM_PARAM_KEY_TYPE", "BINARY"),
            Param("HAM_PARAM_KEY_SIZE", 16)>>>>,
        <<{}, <<>>>>,
        <<{}, <<Param("HAM_PARAM_KEY_TYPE", "UINT32")>>>>,
        <<{}, <<Param("HAM_PARAM_KEY_SIZE", 65536)>>>>,
        <<{}, <<Param("HAM_PARAM_KEY_COMPRESSION", 1)>>>>}

NextParams ==
  \/ create({EF_IN_MEMORY})
  \/ \E n \in Names, a \in ParamArgs : create_db(n, a[1], a[2], HAM_SUCCESS)

SpecParams == Init /\ [][NextParams]_vars

\* files whose header was not written by this version
NextOpen ==
  \/ create({})
  \/ \E n \in Names : create_db(n, {}, <<>>, HAM_SUCCESS)
  \/ close({})
  \/ IoStep
  \/ \E m \in ForeignMagics, v \in ForeignVersions : Tamper(m, v)
  \/ \E f \in {{}, {EF_READ_ONLY}} \cup RecoveryOpenFlags : open(f)

SpecOpen == Init /\ [][NextOpen]_vars

\* ----------------------------------------------------------------- claims
Kinds(k) == {i \in 1..Len(trace) : trace[i].k = k}

\* the call has returned and none of its requests was issued yet
JustCalled(op) == last.op = op /\ trace = <<>>

\* C1: when a crash fell inside a changeset flush and the environment is
\* then opened with recovery and auto recovery, the data file is, once the
\* replay is through, exactly what the completely journalled changesets
\* define: each of them is present, nothing of a torn one is.
C1_CrashSafety ==
  (/\ last.op = "open"
   /\ last.st = HAM_SUCCESS
   /\ last.crashed
   /\ EF_AUTO_RECOVERY \in last.flags
   /\ io = <<>>)
  => file = committed

\* C1, reached: such an open had to write a page back from the journal
C1_Witness ==
  /\ last.op = "open"
  /\ last.st = HAM_SUCCESS
  /\ last.crashed
  /\ EF_AUTO_RECOVERY \in last.flags
  /\ io = <<>>
  /\ Kinds("rwrite") # {}

C3_HeaderLast ==
  \A i \in Kinds("pwrite"), j \in Kinds("pwrite") :
    (trace[i].addr = 0 /\ trace[j].addr # 0) => j < i

\* the versions below the first one open() takes: 1.0.10
BelowMinimumVersion(h) ==
  \/ get_version(h, 0) < 1
  \/ /\ get_version(h, 0) = 1
     /\ get_version(h, 1) = 0
     /\ get_version(h, 2) < 10

\* C4, as the specification states it: open() of a file without the magic
\* is HAM_INV_FILE_HEADER; of a file with the magic and a version below
\* the minimum, or another file version, HAM_INV_FILE_VERSION; after
\* either the device is closed and neither page manager nor journal nor
\* header page exist.
C4_OpenChecksHeader ==
  JustCalled("open") =>
    LET h == file[0]
        magic == verify_magic(h, "H", "A", "M", "0")
    IN /\ ~magic => last.st = "HAM_INV_FILE_HEADER"
       /\ (/\ magic
           /\ \/ BelowMinimumVersion(h)
              \/ get_version(h, 3) # "HAM_FILE_VERSION")
          => last.st = "HAM_INV_FILE_VERSION"
       /\ last.st \in {"HAM_INV_FILE_HEADER", "HAM_INV_FILE_VERSION"}
          => /\ env.status = "closed"
             /\ hdr = NilPage
             /\ pm = NoPageManager
             /\ io = <<>>

\* the place of the first request of a kind among those still to issue
FirstReq(k) ==
  LET at == {i \in 1..Len(io) : io[i].k = k}
  IN IF at = {} THEN 0 ELSE Min(at)

\* C5: open() with recovery enabled of a file with a good header. A journal
\* that is not empty makes it HAM_NEED_RECOVERY without HAM_AUTO_RECOVERY,
\* and then nothing is replayed and the journal stays as it is; with
\* HAM_AUTO_RECOVERY the open succeeds, the journal is replayed and cleared,
\* and the state of the page manager is loaded after that.  A journal that
\* does not exist is created, and the open succeeds.
C5_Recovery ==
  (/\ JustCalled("open")
   /\ EF_RECOVERY \in last.flags
   /\ HeaderCheck(file[0]) = HAM_SUCCESS)
  => IF journal.exists /\ journal.entries # <<>>
     THEN IF EF_AUTO_RECOVERY \in last.flags
          THEN /\ last.st = HAM_SUCCESS
               /\ env.status = "open"
               /\ FirstReq("recover") > 0
               /\ FirstReq("jclear") > FirstReq("recover")
               /\ FirstReq("load_state") > 0
                  => FirstReq("load_state") > FirstReq("jclear")
          ELSE /\ last.st = "HAM_NEED_RECOVERY"
               /\ env.status = "closed"
               /\ io = <<>>
     ELSE /\ last.st = HAM_SUCCESS
          /\ env.status = "open"
          /\ FirstReq("recover") = 0
          /\ ~journal.exists => FirstReq("jcreate") = 1

\* C5, reached: a journal with entries was replayed ahead of the loading
\* of the page manager's state
C5_Witness ==
  /\ JustCalled("open")
  /\ last.st = HAM_SUCCESS
  /\ journal.entries # <<>>
  /\ FirstReq("recover") > 0
  /\ FirstReq("load_state") > FirstReq("recover")

\* C6: a create_db that succeeds took the lowest slot whose name was 0, and
\* that slot now carries the name, the address of the new root page, and
\* the key size, key type, flags and record size of the database; every
\* other slot is as it was.  HAM_LIMITS_REACHED means that no slot had the
\* name 0, and then no slot has changed.
C6_LowestFreeSlot ==
  last.op = "create_db" =>
    /\ last.st = HAM_SUCCESS =>
         LET i == last.slot IN
           /\ i \in Slots
           /\ pre.descs[i].dbname = 0
           /\ \A j \in Slots : j < i => pre.descs[j].dbname # 0
           /\ \A j \in Slots : pre.descs[j].dbname # last.name
           /\ \A j \in Slots : j # i => Descs[j] = pre.descs[j]
           /\ Descs[i].dbname = last.name
           /\ Descs[i].root_address \in 1..NPages
           /\ cache[Descs[i].root_address] = RootPage
           /\ Descs[i].key_size = HAM_KEY_SIZE_UNLIMITED
           /\ Descs[i].key_type = "BINARY"
           /\ Descs[i].flags = last.flags
           /\ Descs[i].rec_size = HAM_RECORD_SIZE_UNLIMITED
    /\ last.st = "HAM_LIMITS_REACHED" =>
         /\ \A j \in Slots : pre.descs[j].dbname # 0
         /\ Descs = pre.descs
    /\ (/\ \A j \in Slots : pre.descs[j].dbname # 0
        /\ \A j \in Slots : pre.descs[j].dbname # last.name
        /\ last.flags \subseteq DbCreateMask
        /\ last.params = <<>>)
       => last.st = "HAM_LIMITS_REACHED"

\* C6, reached: slot 0 was free below a slot in use, and was taken
C6_Witness ==
  /\ last.op = "create_db"
  /\ last.st = HAM_SUCCESS
  /\ last.slot = 0
  /\ MaxDatabases > 1
  /\ pre.descs[1].dbname # 0

\* C7, as the specification states it: in an environment that was opened
\* read-only, create_db, erase_db and rename_db are HAM_WRITE_PROTECTED and
\* leave the descriptors and the dirty bit of the header page alone.
C7_WriteProtected ==
  (/\ env.status = "open"
   /\ EF_READ_ONLY \in env.flags
   /\ last.op \in {"create_db", "erase_db", "rename_db"})
  => /\ last.st = "HAM_WRITE_PROTECTED"
     /\ Descs = pre.descs
     /\ hdrDirty = pre.hdrDirty

\* C8, as the specification states it: a create_db or open_db that is
\* refused for its flags or parameters, or because the database could not
\* be created or opened, leaves descriptors, map of open databases and
\* changeset as they were.
C8_ErrorChangesNothing ==
  (/\ last.op \in {"create_db", "open_db"}
   /\ last.st \in {"HAM_INV_PARAMETER", "HAM_NOT_IMPLEMENTED",
                   "HAM_INV_KEY_SIZE"})
  => /\ Descs = pre.descs
     /\ dbmap = pre.dbmap
     /\ changeset = pre.changeset

\* the key type the parameters ask for
RECURSIVE RequestedKeyType(_)
RequestedKeyType(ps) ==
  IF ps = <<>> THEN "none"
  ELSE IF ps[Len(ps)].name = "HAM_PARAM_KEY_TYPE" THEN ps[Len(ps)].value
  ELSE RequestedKeyType(SubSeq(ps, 1, Len(ps) - 1))

FixedLengthTypes ==
  {"UINT8", "UINT16", "UINT32", "UINT64", "REAL32", "REAL64"}

C10_ErasedIsGone ==
  \A n \in erased :
    /\ \A i \in Slots : Descs[i].dbname # n
    /\ \A k \in 1..Len(NamesFrom(Descs, 0)) : NamesFrom(Descs, 0)[k] # n
    /\ (last.op = "get_database_names")
         => \A k \in 1..Len(last.names) : last.names[k] # n
    /\ (/\ last.op = "open_db"
        /\ last.name = n
        /\ last.flags \subseteq DbOpenMask
        /\ last.params = <<>>)
         => last.st = "HAM_DATABASE_NOT_FOUND"

\* C10, reached: open_db of an erased name in a file-based environment
C10_Witness ==
  /\ last.op = "open_db"
  /\ last.name \in erased
  /\ last.st = "HAM_DATABASE_NOT_FOUND"
  /\ EF_IN_MEMORY \notin env.flags
  /\ env.status = "open"

\* a page that the page manager has handed out and not taken back
Allocated(a) == a \in 1..pm.end /\ a \notin pm.free

\* the root page of the database the last erase_db has erased
ErasedRoot == pre.descs[last.slot].root_address

\* C11, as the specification states it: after erase_db of an existing,
\* closed database its name is 0 and its storage (here its root page) is
\* released and out of the cache, in every mode of the environment,
\* in-memory included.
C11_Original ==
  (last.op = "erase_db" /\ last.st = HAM_SUCCESS) =>
    /\ Descs[last.slot].dbname = 0
    /\ ~Allocated(ErasedRoot)
    /\ cache[ErasedRoot] = NilPage

\* C11: erase_db of an existing, closed database in a file-based
\* environment has released the pages of the database (the root page is on
\* the page manager's freelist and out of the cache) when the name in the
\* descriptor is 0; in an in-memory environment it zeroes the name only,
\* and the pages of the database stay allocated.
C11_EraseReleases ==
  (last.op = "erase_db" /\ last.st = HAM_SUCCESS) =>
    /\ Descs[last.slot].dbname = 0
    /\ pre.descs[last.slot].dbname = last.name
    /\ IF EF_IN_MEMORY \in env.flags
       THEN /\ Allocated(ErasedRoot)
            /\ cache[ErasedRoot] = RootPage
       ELSE /\ ~Allocated(ErasedRoot)
            /\ ErasedRoot \in pm.free
            /\ cache[ErasedRoot] = NilPage

\* C11, reached: a database of a file-based environment was erased and its
\* root page went to the freelist
C11_Witness ==
  /\ last.op = "erase_db"
  /\ last.st = HAM_SUCCESS
  /\ EF_IN_MEMORY \notin env.flags
  /\ ErasedRoot \in pm.free
  /\ Descs[last.slot].dbname = 0

\* ------------------------------------------------ bytes of a page payload
RECURSIVE BitAnd(_, _)
BitAnd(a, b) ==
  IF a = 0 \/ b = 0 THEN 0
  ELSE (a % 2) * (b % 2) + 2 * BitAnd(a \div 2, b \div 2)

RECURSIVE BitOr(_, _)
BitOr(a, b) ==
  IF a = 0 THEN b
  ELSE IF b = 0 THEN a
  ELSE (IF a % 2 = 1 \/ b % 2 = 1 THEN 1 ELSE 0)
       + 2 * BitOr(a \div 2, b \div 2)

\* memmove(&m[dst], &m[src], n): the bytes are read before any is written
\* (a byte from beyond the range reads as 0)
memmove(m, dst, src, n) ==
  [i \in DOMAIN m |->
     IF i >= dst /\ i < dst + n
     THEN IF src + (i - dst) \in DOMAIN m THEN m[src + (i - dst)] ELSE 0
     ELSE m[i]]

\* memcpy(&m[at], bytes, Len(bytes))
memcpy(m, at, bytes) ==
  [i \in DOMAIN m |->
     IF i >= at /\ i < at + Len(bytes) THEN bytes[i - at + 1] ELSE m[i]]

\* the n bytes at &m[at]
BytesAt(m, at, n) ==
  [k \in 1..n |-> IF at + k - 1 \in DOMAIN m THEN m[at + k - 1] ELSE 0]

Zeros(n) == [k \in 1..n |-> 0]

\* a ham_u64_t in memory (little endian), for the values below 65536
U64(v) == <<v % 256, v \div 256, 0, 0, 0, 0, 0, 0>>

\* ------------------------------------------------------------ blob manager
\* the blobs are numbered; the id of blob k is the address it was given
BlobId(k) == U64(256 * k)

\* BlobManager::allocate: a new blob with the bytes of the record
BlobAllocate(bs, bytes) == Append(bs, [live |-> TRUE, bytes |-> bytes])

\* the id BlobManager::allocate returns
NewBlobId(bs) == BlobId(Len(bs) + 1)

\* BlobManager::read and erase of the blob with the id in the 8 bytes
BlobExists(bs, id) == \E k \in 1..Len(bs) : BlobId(k) = id /\ bs[k].live
BlobRead(bs, id) == bs[CHOOSE k \in 1..Len(bs) : BlobId(k) = id].bytes
BlobErase(bs, id) ==
  [k \in 1..Len(bs) |-> IF BlobId(k) = id THEN [bs[k] EXCEPT !.live = FALSE]
                        ELSE bs[k]]

\* ------------------------------------- UpfrontIndex (the live revision)
\* "for capacity, freelist_count, next_offset, range_size"
kIndexPayloadOffset == 16

\* get_full_index_size(): m_sizeof_offset (2, the pages are not larger
\* than 64 KiB) + kSizeofSize
get_full_index_size == 2 + 2

\* UpfrontIndex::allocate(data, capacity, full_size_bytes)
UpfrontIndex_allocate(capacity, full_size_bytes) ==
  [capacity |-> capacity,
   freelist_count |-> 0,
   full_size |-> full_size_bytes,
   next_offset |-> kIndexPayloadOffset + capacity * get_full_index_size,
   rearrange_counter |-> 0,
   chunk |-> [sl \in 0..(capacity - 1) |-> [offset |-> 0, size |-> 0]]]

get_chunk_offset(ix, slot) == ix.chunk[slot].offset

\* can_allocate_space(count, num_bytes); the freelist of the index of a
\* record list is empty (erase_slot is never called on it), and rearrange()
\* only resets the counter, so that the second try ends like the first
can_allocate_space(ix, count, num_bytes) ==
  \/ ix.next_offset + num_bytes <= ix.full_size
  \/ \E i \in count..(count + ix.freelist_count - 1) :
       ix.chunk[i].size >= num_bytes

\* the index after can_allocate_space(): m_rearrange_counter is 0 when
\* rearrange() was reached
after_can_allocate_space(ix, count, num_bytes) ==
  IF ~can_allocate_space(ix, count, num_bytes) /\ ix.rearrange_counter > 0
  THEN [ix EXCEPT !.rearrange_counter = 0]
  ELSE ix

\* allocate_space(count, slot, num_bytes) can append at the end of the range
allocate_space_fits(ix, num_bytes) ==
  ix.next_offset + num_bytes <= ix.full_size

\* allocate_space(count, slot, num_bytes) when it appends: the index after
\* it; the offset it returns is the next_offset before it
allocate_space(ix, slot, num_bytes) ==
  [ix EXCEPT !.next_offset = ix.next_offset + num_bytes,
             !.chunk[slot] = [offset |-> ix.next_offset,
                              size |-> num_bytes]]


\* ------------------------------ DuplicateDefaultRecordList (live revision)
\* BtreeRecord::kBlobSizeTiny, kBlobSizeSmall, kBlobSizeEmpty
kBlobSizeTiny == 1
kBlobSizeSmall == 2
kBlobSizeEmpty == 4

\* "bit 8: kExtendedDuplicates"
kExtendedDuplicates == 128

\* the width of an inline duplicate: "1 byte flags, 8 byte data"
kRecordWidth == 9

\* the constructor of DuplicateRecordList: m_duplicate_threshold.  The
\* assignment of 0x7f follows the if/else-if chain without an else, and is
\* made whatever the page size is.
DuplicateThreshold(page_size, ms_duplicate_threshold) ==
  IF ms_duplicate_threshold # 0 THEN ms_duplicate_threshold
  ELSE LET chain == IF page_size = 1024 THEN 32
                    ELSE IF page_size <= 1024 * 8 THEN 64
                    ELSE IF page_size <= 1024 * 16 THEN 128
                    ELSE 0
           m_duplicate_threshold == 127
       IN m_duplicate_threshold

\* the byte of the meta data of a slot
MetaByte(n, slot) == n.data[get_chunk_offset(n.index, slot)]

HasDuplicateTable(n, slot) ==
  BitAnd(MetaByte(n, slot), kExtendedDuplicates) # 0

\* get_inline_record_count(slot)
get_inline_record_count(n, slot) == BitAnd(MetaByte(n, slot), 127)

\* set_inline_record_count(slot, count):
\* "m_data[offset] = count | (m_data[offset] & 0xf0)"
set_inline_record_count(data, offset, count) ==
  [data EXCEPT ![offset] = BitOr(count % 256, BitAnd(data[offset], 240))]

\* get_record_id(slot): the 8 bytes behind the meta data
get_record_id(n, slot) ==
  BytesAt(n.data, get_chunk_offset(n.index, slot) + 1, 8)

\* get_record_count(slot).  A slot with kExtendedDuplicates reads the
\* duplicate table with the id get_record_id() returns; -1: no such blob
get_record_count(n, bs, slot) ==
  IF HasDuplicateTable(n, slot)
  THEN IF BlobExists(bs, get_record_id(n, slot))
       THEN BlobRead(bs, get_record_id(n, slot))[1]
       ELSE -1
  ELSE BitAnd(MetaByte(n, slot), 127)

\* what a call returns: the status and, for a read, the bytes
Returned(st, bytes) == [st |-> st, data |-> bytes]

\* get_record(slot, duplicate_index) of an inline duplicate: the first byte
\* of the entry is taken as the flags, the 8 bytes behind it as the data
get_record(n, bs, slot, duplicate_index) ==
  LET p == get_chunk_offset(n.index, slot) + 1
             + kRecordWidth * duplicate_index
      record_flags == n.data[p]
      id == BytesAt(n.data, p + 1, 8)
  IN IF HasDuplicateTable(n, slot) THEN Returned("HAM_BLOB_NOT_FOUND", <<>>)
     ELSE IF BitAnd(record_flags, kBlobSizeEmpty) # 0
     THEN Returned("ok", <<>>)
     ELSE IF BitAnd(record_flags, kBlobSizeTiny) # 0
     THEN Returned("ok", BytesAt(n.data, p + 1, n.data[p + 8]))
     ELSE IF BitAnd(record_flags, kBlobSizeSmall) # 0
     THEN Returned("ok", BytesAt(n.data, p + 1, 8))
     ELSE IF BlobExists(bs, id) THEN Returned("ok", BlobRead(bs, id))
     ELSE Returned("HAM_BLOB_NOT_FOUND", <<>>)


\* the flags of set_record()
HAM_OVERWRITE == "HAM_OVERWRITE"
HAM_DUPLICATE_INSERT_BEFORE == "HAM_DUPLICATE_INSERT_BEFORE"
HAM_DUPLICATE_INSERT_AFTER == "HAM_DUPLICATE_INSERT_AFTER"
HAM_DUPLICATE_INSERT_FIRST == "HAM_DUPLICATE_INSERT_FIRST"
HAM_DUPLICATE_INSERT_LAST == "HAM_DUPLICATE_INSERT_LAST"

\* "adjust flags": the flags and the duplicate index after it
AdjustedFlags(flags, duplicate_index, count) ==
  IF HAM_DUPLICATE_INSERT_BEFORE \in flags /\ duplicate_index = 0
  THEN flags \cup {HAM_DUPLICATE_INSERT_FIRST}
  ELSE IF HAM_DUPLICATE_INSERT_AFTER \in flags
  THEN IF duplicate_index = count
       THEN flags \cup {HAM_DUPLICATE_INSERT_LAST}
       ELSE flags \cup {HAM_DUPLICATE_INSERT_BEFORE}
  ELSE flags

AdjustedIndex(flags, duplicate_index, count) ==
  IF HAM_DUPLICATE_INSERT_BEFORE \in flags /\ duplicate_index = 0
  THEN duplicate_index
  ELSE IF HAM_DUPLICATE_INSERT_AFTER \in flags /\ duplicate_index # count
  THEN duplicate_index + 1
  ELSE duplicate_index

\* the end of set_record(): "record_flags = &m_data[offset + 1 + 9 *
\* duplicate_index]; p = record_flags++;" and the four sizes of a record.
\* p is the first byte of the entry and record_flags the second one.
StoreInlineRecord(data, bs, entry, record) ==
  LET p == entry
      record_flags == entry + 1
  IN IF Len(record) = 0
     THEN [memcpy(data, p, Zeros(8)) EXCEPT ![record_flags] = kBlobSizeEmpty]
     ELSE IF Len(record) < 8
     THEN [memcpy([data EXCEPT ![p + 7] = Len(record)], p, record)
             EXCEPT ![record_flags] = kBlobSizeTiny]
     ELSE IF Len(record) = 8
     THEN [memcpy(data, p, record) EXCEPT ![record_flags] = kBlobSizeSmall]
     ELSE memcpy([data EXCEPT ![record_flags] = 0], p, NewBlobId(bs))

BlobsAfterStore(bs, record) ==
  IF Len(record) > 8 THEN BlobAllocate(bs, record) ELSE bs

\* the list of duplicates a key is expected to have after set_record()
ExpectedAfterSet(recs, duplicate_index, record, flags) ==
  LET f == AdjustedFlags(flags, duplicate_index, Len(recs))
      i == AdjustedIndex(flags, duplicate_index, Len(recs))
  IN IF HAM_OVERWRITE \in flags
     THEN [recs EXCEPT ![duplicate_index + 1] = record]
     ELSE IF HAM_DUPLICATE_INSERT_FIRST \in f THEN <<record>> \o recs
     ELSE IF HAM_DUPLICATE_INSERT_BEFORE \in f
     THEN SubSeq(recs, 1, i) \o <<record>> \o SubSeq(recs, i + 1, Len(recs))
     ELSE Append(recs, record)

\* a call that ended in a fault of the process ends the behaviour
Alive == call.st # "SIGSEGV"

BtCall(op, st, args) == [op |-> op, st |-> st, args |-> args]

\* DuplicateDefaultRecordList::set_record(slot, duplicate_index, record,
\* flags, 0)
RecordList_set_record(slot, duplicate_index, record, flags) ==
  /\ node.layout = "duplicates"
  /\ Alive
  /\ LET offset == get_chunk_offset(node.index, slot)
         count == get_record_count(node, blobs, slot)
         inserts == ~HasDuplicateTable(node, slot) /\ HAM_OVERWRITE \notin flags
         by_count == get_inline_record_count(node, slot) >= node.threshold
         cannot_grow ==
           ~can_allocate_space(node.index, node.count,
                               (count + 1) * kRecordWidth)
         force_duptable == inserts /\ (by_count \/ cannot_grow)
         ix1 == IF inserts /\ ~by_count
                THEN after_can_allocate_space(node.index, node.count,
                                              (count + 1) * kRecordWidth)
                ELSE node.index
         num_bytes == 1 + (count + 1) * kRecordWidth
         noff == ix1.next_offset
         ix2 == allocate_space(ix1, slot, num_bytes)
         d1 == memmove(node.data, noff, offset, num_bytes)
         f == AdjustedFlags(flags, duplicate_index, count)
         di == AdjustedIndex(flags, duplicate_index, count)
         d2 == IF HAM_DUPLICATE_INSERT_FIRST \in f
               THEN IF count > 0
                    THEN memmove(d1, noff + 1 + kRecordWidth, noff + 1,
                                 count * kRecordWidth)
                    ELSE d1
               ELSE IF HAM_DUPLICATE_INSERT_BEFORE \in f
               THEN memmove(d1, noff + 1 + kRecordWidth * di,
                            noff + 1 + kRecordWidth * (di + 1),
                            (count - di) * kRecordWidth)
               ELSE d1
         at == IF HAM_DUPLICATE_INSERT_FIRST \in f THEN 0
               ELSE IF HAM_DUPLICATE_INSERT_BEFORE \in f THEN di
               ELSE count
         d3 == set_inline_record_count(d2, noff, count + 1)
         args == [slot |-> slot, duplicate_index |-> duplicate_index,
                  record |-> record, flags |-> flags]
     IN IF force_duptable
        THEN \* the duplicates go to a new DuplicateTable, which is then put
             \* into the cache with "(*m_duptable_cache)[table_id] = dt";
             \* m_duptable_cache is 0 until get_duplicate_table() was called
             /\ node.cache = "null"
             /\ call' = BtCall("set_record", "SIGSEGV", args)
             /\ UNCHANGED <<node, blobs>>
        ELSE IF HAM_OVERWRITE \in flags
        THEN \* "memcpy(&m_data[offset + 1 + 9 * duplicate_index],
             \*  record->data, record->size)"
             /\ node' = [node EXCEPT !.data =
                           memcpy(node.data,
                                  offset + 1 + kRecordWidth * duplicate_index,
                                  record)]
             /\ call' = BtCall("set_record", "ok", args)
             /\ UNCHANGED blobs
        ELSE IF ~allocate_space_fits(ix1, num_bytes)
        THEN \* can_allocate_space() was asked for one byte less than
             \* allocate_space(), which now returns (ham_u32_t)-1; the
             \* memmove to &m_data[0xffffffff] is outside of the page
             /\ call' = BtCall("set_record", "SIGSEGV", args)
             /\ UNCHANGED <<node, blobs>>
        ELSE /\ node' = [node EXCEPT
                   !.index = ix2,
                   !.data = StoreInlineRecord(d3, blobs,
                                              noff + 1 + kRecordWidth * at,
                                              record)]
             /\ blobs' = BlobsAfterStore(blobs, record)
             /\ call' = BtCall("set_record", "ok",
                               [slot |-> slot,
                                duplicate_index |-> duplicate_index,
                                record |-> record, flags |-> flags,
                                new_duplicate_index |-> at])
  /\ hist' = [recs |-> ExpectedAfterSet(hist.recs, duplicate_index, record,
                                        flags),
              appended |-> hist.appended
                           /\ flags = {HAM_DUPLICATE_INSERT_LAST},
              calls |-> hist.calls + 1]
  /\ UNCHANGED <<other, envvars>>


\* is_record_inline(flags)
is_record_inline(flags) == flags # 0

\* the blob manager is asked to erase the blob whose id the 8 bytes behind
\* the first byte of the entry are, when that first byte is 0
EraseEntryBlob(st, duplicate_index) ==
  LET p == st.offset + 1 + kRecordWidth * duplicate_index
      id == BytesAt(st.data, p + 1, 8)
  IN IF st.st # "ok" \/ is_record_inline(st.data[p]) THEN st
     ELSE IF ~BlobExists(st.blobs, id)
     THEN [st EXCEPT !.st = "HAM_BLOB_NOT_FOUND"]
     ELSE [st EXCEPT !.blobs = BlobErase(st.blobs, id),
                     !.data = memcpy(st.data, p + 1, Zeros(8))]

RECURSIVE EraseEntryBlobs(_, _, _)
EraseEntryBlobs(st, i, count) ==
  IF i >= count THEN st
  ELSE EraseEntryBlobs(EraseEntryBlob(st, i), i + 1, count)

\* DuplicateDefaultRecordList::erase_record(slot, duplicate_index,
\* all_duplicates) of a slot with inline duplicates
RecordList_erase_record(slot, duplicate_index, all_duplicates) ==
  /\ node.layout = "duplicates"
  /\ Alive
  /\ ~HasDuplicateTable(node, slot)
  /\ LET offset == get_chunk_offset(node.index, slot)
         count == get_inline_record_count(node, slot)
         all == all_duplicates \/ (count = 1 /\ duplicate_index = 0)
         st0 == [st |-> "ok", offset |-> offset, data |-> node.data,
                 blobs |-> blobs]
         st1 == IF all THEN EraseEntryBlobs(st0, 0, count)
                ELSE EraseEntryBlob(st0, duplicate_index)
         args == [slot |-> slot, duplicate_index |-> duplicate_index,
                  all_duplicates |-> all_duplicates]
     IN IF st1.st # "ok"
        THEN \* the exception of the blob manager leaves the list as it is
             /\ node' = [node EXCEPT !.data = st1.data]
             /\ blobs' = st1.blobs
             /\ call' = BtCall("erase_record", st1.st, args)
        ELSE IF ~all /\ duplicate_index < count - 1
        THEN \* "memmove(&m_data[offset + 1 + m_record_size *
             \*  duplicate_index], ..., m_record_size * (count -
             \*  duplicate_index - 1))" with m_record_size =
             \* HAM_RECORD_SIZE_UNLIMITED: outside of the page
             /\ node' = [node EXCEPT !.data = st1.data]
             /\ blobs' = st1.blobs
             /\ call' = BtCall("erase_record", "SIGSEGV", args)
        ELSE /\ node' = [node EXCEPT !.data =
                           set_inline_record_count(
                             st1.data, offset,
                             IF all THEN 0 ELSE count - 1)]
             /\ blobs' = st1.blobs
             /\ call' = BtCall("erase_record", "ok", args)
  /\ hist' = [hist EXCEPT !.calls = @ + 1, !.appended = FALSE, !.recs =
                IF all_duplicates \/ Len(hist.recs) = 1 THEN <<>>
                ELSE SubSeq(hist.recs, 1, duplicate_index)
                     \o SubSeq(hist.recs, duplicate_index + 2,
                               Len(hist.recs))]
  /\ UNCHANGED <<other, envvars>>

\* the page sizes of the environments
PageSizes == {1024, 4096, 16384, 65536}

\* Globals::ms_duplicate_threshold: not set, or set
GlobalThresholds == {0, 2}

\* the size in bytes of the range a record list is given in its page
SmallRange == 78
LargeRange == 1400

\* the number of calls made on one record list
MaxCalls == 3

\* records of the size classes empty, tiny, small and blob
Records ==
  {<<>>, <<1, 2, 3, 4, 5, 6, 7, 8>>,
   <<1, 2, 3, 4, 5, 6, 7, 8, 9, 10, 11, 12>>}
TinyRecord == <<7, 7, 7>>

\* A leaf of one key is set up: its record list is constructed for the
\* page size and is given a range of the page; the chunk of the slot is
\* its meta byte.
RecordList_create(page_size, ms_duplicate_threshold, range) ==
  /\ node = NoNode
  /\ node' =
       [layout |-> "duplicates",
        page_size |-> page_size,
        ms_duplicate_threshold |-> ms_duplicate_threshold,
        threshold |-> DuplicateThreshold(page_size, ms_duplicate_threshold),
        count |-> 1,
        index |-> allocate_space(UpfrontIndex_allocate(1, range), 0, 1),
        data |-> [i \in 0..(range - 1) |-> 0],
        cache |-> "null"]
  /\ call' = BtCall("create", "ok", [page_size |-> page_size])
  /\ hist' = NoHistory
  /\ UNCHANGED <<other, blobs, envvars>>

NextDuplicates ==
  \/ \E ps \in PageSizes, ms \in GlobalThresholds :
       RecordList_create(ps, ms, SmallRange)
  \/ /\ hist.calls < MaxCalls
     /\ \E r \in Records :
          RecordList_set_record(0, 0, r, {HAM_DUPLICATE_INSERT_LAST})
  \/ /\ hist.calls < MaxCalls
     /\ \E r \in Records :
          RecordList_set_record(0, 0, r, {HAM_DUPLICATE_INSERT_FIRST})
  \/ /\ hist.calls < MaxCalls
     /\ \E r \in Records, i \in 0..(Len(hist.recs) - 1) :
          \E f \in {HAM_DUPLICATE_INSERT_BEFORE, HAM_DUPLICATE_INSERT_AFTER,
                    HAM_OVERWRITE} :
            RecordList_set_record(0, i, r, {f})
  \/ /\ hist.calls < MaxCalls
     /\ \E i \in 0..(Len(hist.recs) - 1), all \in BOOLEAN :
          RecordList_erase_record(0, i, all)

SpecDuplicates == Init /\ [][NextDuplicates]_vars

\* one key that gets duplicate after duplicate at the end of its list, in
\* a range that has room for many, and then loses them from the end
NextCounter ==
  \/ RecordList_create(16384, 0, LargeRange)
  \/ /\ hist.appended
     /\ RecordList_set_record(0, 0, TinyRecord, {HAM_DUPLICATE_INSERT_LAST})
  \/ /\ Len(hist.recs) > 0
     /\ RecordList_erase_record(0, Len(hist.recs) - 1, FALSE)

SpecCounter == Init /\ [][NextCounter]_vars

\* C12, as the specification states it: after n duplicates r0..r(n-1) were
\* put at the end of the list of a key (DuplicateInsertLast), every insert
\* has completed and get_record(slot, i) returns ri for every i < n.
C12_DuplicatesReadBack ==
  (node.layout = "duplicates" /\ hist.appended /\ call.op = "set_record")
  => /\ call.st = "ok"
     /\ \A i \in 1..Len(hist.recs) :
          get_record(node, blobs, 0, i - 1) = Returned("ok", hist.recs[i])

\* the threshold the specification gives for a page size
SpecifiedThreshold(page_size) ==
  IF page_size = 1024 THEN 32
  ELSE IF page_size <= 8192 THEN 64
  ELSE IF page_size <= 16384 THEN 128
  ELSE 127

\* C13, as the specification states it: the duplicate threshold of a record
\* list is 32 for pages of 1 KiB, 64 up to 8 KiB, 128 up to 16 KiB and 127
\* above; a key with more than that many duplicates has them in a
\* duplicate table, and a slot with the ExtendedDuplicates flag holds the
\* id of the blob of its table.
C13_DuplicateThreshold ==
  (node.layout = "duplicates" /\ node.ms_duplicate_threshold = 0)
  => /\ node.threshold = SpecifiedThreshold(node.page_size)
     /\ (call.st = "ok" /\ Len(hist.recs) > node.threshold)
          => HasDuplicateTable(node, 0)
     /\ HasDuplicateTable(node, 0)
          => BlobExists(blobs, get_record_id(node, 0))

\* C17, as the specification states it: after every call that completed
\* record_count(slot) is the number of duplicates the key has (one more
\* with each duplicate inserted, one less with each one erased), and the
\* update of the inline counter leaves the ExtendedDuplicates flag alone.
C17_RecordCount ==
  (node.layout = "duplicates" /\ call.st = "ok")
  => /\ get_record_count(node, blobs, 0) = Len(hist.recs)
     /\ ~HasDuplicateTable(node, 0)

(***************************************************************************)
(* Key comparison.  BtreeIndex::compare_keys hands both keys to the        *)
(* comparator of the index traits; for binary keys that comparator        *)
(* compares the common prefix with memcmp and breaks a tie by the sizes.   *)
(***************************************************************************)

MaxKeyLen == 2

KeyBytes == {0, 1, 255}

RECURSIVE KeysOfLen(_, _)
KeysOfLen(bytes, n) ==
  IF n = 0 THEN {<<>>}
  ELSE {Append(k, b) : k \in KeysOfLen(bytes, n - 1), b \in bytes}

KeysUpTo(bytes, n) == UNION {KeysOfLen(bytes, i) : i \in 0..n}

BinaryKeys == KeysUpTo(KeyBytes, MaxKeyLen)

\* memcmp: the difference of the first pair of unsigned bytes that differ
RECURSIVE memcmp(_, _, _)
memcmp(lhs, rhs, n) ==
  IF n = 0 THEN 0
  ELSE IF Head(lhs) # Head(rhs) THEN Head(lhs) - Head(rhs)
  ELSE memcmp(Tail(lhs), Tail(rhs), n - 1)

VariableSizeCompare(lhs_data, lhs_size, rhs_data, rhs_size) ==
  IF lhs_size < rhs_size
  THEN LET m == memcmp(lhs_data, rhs_data, lhs_size)
       IN IF m < 0 THEN -1 ELSE IF m > 0 THEN 1 ELSE -1
  ELSE IF rhs_size < lhs_size
  THEN LET m == memcmp(lhs_data, rhs_data, rhs_size)
       IN IF m < 0 THEN -1 ELSE IF m > 0 THEN 1 ELSE 1
  ELSE LET m == memcmp(lhs_data, rhs_data, lhs_size)
       IN IF m < 0 THEN -1 ELSE IF m > 0 THEN 1 ELSE 0

compare_keys_Memcmp(lhs, rhs) ==
  memcmp(lhs, rhs, IF Len(lhs) < Len(rhs) THEN Len(lhs) ELSE Len(rhs))

compare_keys(lhs, rhs) ==
  VariableSizeCompare(lhs, Len(lhs), rhs, Len(rhs))

\* db->get_btree_index()->compare_keys(&key1, &key2), as the unit test calls it
BtreeIndex_compare_keys(lhs, rhs) ==
  /\ Alive
  /\ node = NoNode
  /\ call' = BtCall("compare_keys", "ok",
                    [lhs |-> lhs, rhs |-> rhs, cmp |-> compare_keys(lhs, rhs)])
  /\ UNCHANGED <<node, other, blobs, hist, envvars>>

NextCompare ==
  \E lhs \in BinaryKeys, rhs \in BinaryKeys : BtreeIndex_compare_keys(lhs, rhs)

SpecCompare == Init /\ [][NextCompare]_vars

\* a is ordered before b: at the first position where they differ a has the
\* smaller byte, or a ends there and b goes on
OrderedBefore(a, b) ==
  \E i \in 1..(Len(b)) :
    /\ i <= Len(a) + 1
    /\ \A j \in 1..(i - 1) : a[j] = b[j]
    /\ (i = Len(a) + 1 \/ a[i] < b[i])

MaxLeafKeys == 3

LeafKeyBytes == {1, 2}

LeafKeys == KeysUpTo(LeafKeyBytes, MaxKeyLen)

HAM_FIND_EXACT_MATCH == "HAM_FIND_EXACT_MATCH"
HAM_FIND_LT_MATCH == "HAM_FIND_LT_MATCH"
HAM_FIND_GT_MATCH == "HAM_FIND_GT_MATCH"

FindFlags == SUBSET {HAM_FIND_EXACT_MATCH, HAM_FIND_LT_MATCH, HAM_FIND_GT_MATCH}

\* tags of an approximate match; only that they differ from 0 and from each
\* other matters
kLower == 1
kGreater == 2

\* C division of ints truncates towards zero
IntDiv(a, b) == IF a >= 0 THEN a \div b ELSE 0 - ((0 - a) \div b)

\* compare(key, slot, comparator): slots are counted from 0
compare(keys, key, slot) == compare_keys(key, keys[slot + 1])

\* the loop of find_child; yields the slot and the last comparison
RECURSIVE find_child_loop(_, _, _, _, _)
find_child_loop(keys, key, l, r, last_i) ==
  LET i == IntDiv(l + r, 2)
  IN IF i = last_i
     THEN [ret |-> i, cmp |-> 1]
     ELSE LET cmp == compare(keys, key, i)
          IN IF cmp = 0
             THEN [ret |-> i, cmp |-> cmp]
             ELSE IF cmp < 0
             THEN IF r = 0
                  THEN [ret |-> -1, cmp |-> cmp]
                  ELSE find_child_loop(keys, key, l, i - 1, last_i)
             ELSE find_child_loop(keys, key, i + 1, r, i)

find_child_LastZero(keys, key) ==
  LET count == Len(keys)
  IN find_child_loop(keys, key, 1, count - 1, 0)

find_child(keys, key) ==
  LET count == Len(keys)
  IN find_child_loop(keys, key, 1, count - 1, count + 1)

find_leaf(keys, key, flags) ==
  IF Len(keys) = 0
  THEN [slot |-> -1, approx_match |-> 0]
  ELSE LET found == find_child(keys, key)
           cmp == found.cmp
           slot == found.ret
       IN IF cmp = 0 /\ (flags = {} \/ HAM_FIND_EXACT_MATCH \in flags)
          THEN [slot |-> slot, approx_match |-> 0]
          ELSE IF HAM_FIND_LT_MATCH \in flags
          THEN IF cmp = 0 /\ HAM_FIND_GT_MATCH \in flags
               THEN [slot |-> slot + 1, approx_match |-> kLower]
               ELSE IF slot < 0 /\ HAM_FIND_GT_MATCH \in flags
               THEN [slot |-> 0, approx_match |-> kGreater]
               ELSE [slot |-> IF cmp <= 0 THEN slot - 1 ELSE slot,
                     approx_match |-> kLower]
          ELSE IF HAM_FIND_GT_MATCH \in flags
          THEN [slot |-> slot + 1, approx_match |-> kGreater]
          ELSE [slot |-> IF cmp # 0 THEN -1 ELSE slot, approx_match |-> 0]

\* the keys of a leaf are kept in strictly ascending order
Ascending(keys) ==
  \A i \in 1..(Len(keys) - 1) : compare_keys(keys[i], keys[i + 1]) = -1

Leaves ==
  {keys \in UNION {[1..n -> LeafKeys] : n \in 1..MaxLeafKeys} : Ascending(keys)}

\* a leaf page with its keys, as the insert path leaves it
Leaf_create(keys) ==
  /\ Alive
  /\ node = NoNode
  /\ node' = [layout |-> "leaf", keys |-> keys]
  /\ call' = BtCall("create", "ok", [count |-> Len(keys)])
  /\ UNCHANGED <<other, blobs, hist, envvars>>

BtreeIndex_find_leaf(key, flags) ==
  /\ Alive
  /\ node.layout = "leaf"
  /\ call' = BtCall("find_leaf", "ok",
                    [key |-> key, flags |-> flags,
                     found |-> find_leaf(node.keys, key, flags)])
  /\ UNCHANGED <<node, other, blobs, hist, envvars>>

NextFind ==
  \/ \E keys \in Leaves : Leaf_create(keys)
  \/ \E key \in LeafKeys, flags \in FindFlags : BtreeIndex_find_leaf(key, flags)

SpecFind == Init /\ [][NextFind]_vars

\* the slots of a leaf whose key is below / above the probe
SlotsBelow(keys, key) == {i \in 0..(Len(keys) - 1) : OrderedBefore(keys[i + 1], key)}
SlotsAbove(keys, key) == {i \in 0..(Len(keys) - 1) : OrderedBefore(key, keys[i + 1])}
SlotsEqual(keys, key) == {i \in 0..(Len(keys) - 1) : keys[i + 1] = key}

\* C18: find_leaf on a non-empty ascending leaf returns the slot a reference
\* search would: on a hit with flags 0 or EXACT the slot of the key with
\* approx_match 0; on a miss with LT the greatest key below the probe, with
\* GT the smallest key above it (count when it is in the next leaf), with
\* both the nearest existing side, and -1 without LT/GT; a result tagged
\* Lower is the slot of a key smaller than the probe (or -1, the previous
\* leaf) and a result tagged Greater the slot of a larger key (or count, the
\* next leaf).
C18_FindLeaf ==
  (call.op = "find_leaf" /\ node.layout = "leaf") =>
    LET keys == node.keys
        key == call.args.key
        flags == call.args.flags
        slot == call.args.found.slot
        approx == call.args.found.approx_match
        hit == SlotsEqual(keys, key) # {}
        below == SlotsBelow(keys, key)
        above == SlotsAbove(keys, key)
        lt == HAM_FIND_LT_MATCH \in flags
        gt == HAM_FIND_GT_MATCH \in flags
    IN /\ (hit /\ (flags = {} \/ HAM_FIND_EXACT_MATCH \in flags))
            => (slot \in SlotsEqual(keys, key) /\ approx = 0)
       /\ (~hit /\ lt /\ ~gt /\ below # {}) => slot = Max(below)
       /\ (~hit /\ gt /\ ~lt)
            => slot = (IF above # {} THEN Min(above) ELSE Len(keys))
       /\ (~hit /\ lt /\ gt)
            => slot = (IF below # {} THEN Max(below) ELSE Min(above))
       /\ (~hit /\ ~lt /\ ~gt) => slot = -1
       /\ approx = kLower => (slot \in below \/ slot = -1)
       /\ approx = kGreater => (slot \in above \/ slot = Len(keys))

(***************************************************************************)
(* Pages handed out by the page manager: DbFixture::flushPageTest          *)
(* allocates a page, writes its payload, flushes it, drops it from the     *)
(* cache and fetches it again.                                             *)
(***************************************************************************)

\* "for (int i = 0; i < 16; i++) p[i] = (uint8_t)i;"
TestPayload == [i \in 1..16 |-> i - 1]

Payloads == {TestPayload, Zeros(16)}

DataPage(address, payload) ==
  [type |-> "data", lsn |-> 0, address |-> address, payload |-> payload]

PageCreateFlags == {{}, {EF_RECOVERY}}

IsCached(a) == a \in DOMAIN cache /\ cache[a] # NilPage

\* the payload last handed to the device for each address (ghost)
FlushedAfter(recs, a, payload) ==
  SelectSeq(recs, LAMBDA e : e.address # a)
    \o <<[address |-> a, payload |-> payload]>>

WasFlushed(a) == \E i \in 1..Len(hist.recs) : hist.recs[i].address = a

Flushed(a) ==
  hist.recs[CHOOSE i \in 1..Len(hist.recs) : hist.recs[i].address = a].payload

\* pm->alloc(context, 0): a new page; its buffer is not cleared
PageManager_alloc(payload) ==
  /\ Running
  /\ LET a == AllocAddr(pm, env.flags)
     IN /\ a <= NPages
        /\ cache' = [cache EXCEPT ![a] = DataPage(a, payload)]
        /\ dirty' = dirty \cup {a}
        /\ changeset' = IF EF_RECOVERY \in env.flags
                        THEN changeset \cup {a} ELSE changeset
        /\ pm' = AfterAlloc(pm, a)
        /\ call' = BtCall("alloc", "ok", [address |-> a])
  /\ UNCHANGED <<file, journal, lsn, env, hdr, hdrDirty, dbmap, io, trace,
                 last, pre, committed, crashInFlush, erased>>
  /\ UNCHANGED <<node, other, blobs, hist>>

\* writing through page->get_payload()
Page_set_payload(a, payload) ==
  /\ Running
  /\ IsCached(a)
  /\ cache[a].type = "data"
  /\ cache[a].payload # payload
  /\ cache' = [cache EXCEPT ![a].payload = payload]
  /\ call' = BtCall("set_payload", "ok", [address |-> a])
  /\ UNCHANGED <<file, journal, lsn, env, hdr, hdrDirty, dirty, changeset,
                 dbmap, pm, io, trace, last, pre, committed, crashInFlush,
                 erased>>
  /\ UNCHANGED <<node, other, blobs, hist>>

\* page->set_dirty(true)
Page_set_dirty(a) ==
  /\ Running
  /\ IsCached(a)
  /\ cache[a].type = "data"
  /\ a \notin dirty
  /\ dirty' = dirty \cup {a}
  /\ call' = BtCall("set_dirty", "ok", [address |-> a])
  /\ UNCHANGED <<file, journal, lsn, env, hdr, hdrDirty, cache, changeset,
                 dbmap, pm, io, trace, last, pre, committed, crashInFlush,
                 erased>>
  /\ UNCHANGED <<node, other, blobs, hist>>

\* what Page::flush hands to the device: the page if it is dirty
Page_flush_Io_Nothing(a, img, is_dirty) == <<>>

Page_flush_Io(a, img, is_dirty) ==
  IF is_dirty THEN <<Req("pwrite", a, img, 0, 0)>> ELSE <<>>

\* page->flush(): a dirty page is written to the device and becomes clean
Page_flush(a) ==
  /\ Running
  /\ IsCached(a)
  /\ cache[a].type = "data"
  /\ a \in dirty
  /\ io' = Page_flush_Io(a, cache[a], a \in dirty)
  /\ dirty' = dirty \ {a}
  /\ trace' = <<>>
  /\ hist' = [hist EXCEPT !.recs = FlushedAfter(@, a, cache[a].payload)]
  /\ call' = BtCall("flush", "ok", [address |-> a])
  /\ UNCHANGED <<file, journal, lsn, env, hdr, hdrDirty, cache, changeset,
                 dbmap, pm, last, pre, committed, crashInFlush, erased>>
  /\ UNCHANGED <<node, other, blobs>>

\* m_context->changeset.clear(): "unlock pages"
Changeset_clear ==
  /\ Running
  /\ changeset # {}
  /\ changeset' = {}
  /\ call' = BtCall("changeset.clear", "ok", <<>>)
  /\ UNCHANGED <<file, journal, lsn, env, hdr, hdrDirty, cache, dirty, dbmap,
                 pm, io, trace, last, pre, committed, crashInFlush, erased>>
  /\ UNCHANGED <<node, other, blobs, hist>>

\* whether the cache lets go of a page: not while a changeset holds it
CanRemove(a) == a \notin changeset

\* test.remove_page(page); delete page
PageManagerTest_remove_page(a) ==
  /\ Running
  /\ IsCached(a)
  /\ cache[a].type = "data"
  /\ CanRemove(a)
  /\ cache' = [cache EXCEPT ![a] = NilPage]
  /\ dirty' = dirty \ {a}
  /\ call' = BtCall("remove_page", "ok", [address |-> a])
  /\ UNCHANGED <<file, journal, lsn, env, hdr, hdrDirty, changeset, dbmap,
                 pm, io, trace, last, pre, committed, crashInFlush, erased>>
  /\ UNCHANGED <<node, other, blobs, hist>>

\* the page image a read of the device at this address yields; a page the
\* file was grown by and that was never written reads as zeroes
DeviceRead(f, a) ==
  IF f[a] = NilPage THEN DataPage(a, Zeros(16))
  ELSE [f[a] EXCEPT !.address = a]

\* pm->fetch(context, address): from the cache, otherwise from the device
PageManager_fetch(a) ==
  /\ Running
  /\ a \in 1..NPages
  /\ a <= pm.end
  /\ a \notin pm.free
  /\ IsCached(a) => cache[a].type = "data"
  /\ LET loaded == ~IsCached(a)
         page == IF loaded THEN DeviceRead(file, a) ELSE cache[a]
     IN /\ cache' = [cache EXCEPT ![a] = page]
        /\ changeset' = IF EF_RECOVERY \in env.flags
                        THEN changeset \cup {a} ELSE changeset
        /\ call' = BtCall("fetch", "ok",
                          [address |-> a, page |-> page, loaded |-> loaded])
  /\ UNCHANGED <<file, journal, lsn, env, hdr, hdrDirty, dirty, dbmap, pm, io,
                 trace, last, pre, committed, crashInFlush, erased>>
  /\ UNCHANGED <<node, other, blobs, hist>>

NextPages ==
  \/ \E flags \in PageCreateFlags : create(flags)
  \/ IoStep
  \/ \E payload \in Payloads : PageManager_alloc(payload)
  \/ \E a \in 1..NPages, payload \in Payloads : Page_set_payload(a, payload)
  \/ \E a \in 1..NPages : Page_set_dirty(a)
  \/ \E a \in 1..NPages : Page_flush(a)
  \/ Changeset_clear
  \/ \E a \in 1..NPages : PageManagerTest_remove_page(a)
  \/ \E a \in 1..NPages : PageManager_fetch(a)

SpecPages == Init /\ [][NextPages]_vars

\* a fetch has just read, from the device, a page that was flushed before
FetchedFlushed ==
  /\ call.op = "fetch"
  /\ call.args.loaded
  /\ WasFlushed(call.args.address)

\* a page leaves the cache in this step
Removes(a) == IsCached(a) /\ cache'[a] = NilPage

NodeRange == 256

\* the capacity the btree's statistics hand to initialize()
NodeCapacity == 9

MaxNodeCalls == 4

\* DefaultKeyList<ham_u16_t, true>::kSpan:
\* "1 byte flags + 2 byte key size + 2 byte offset + 1 byte record counter"
kSpan == 3 + 2 + 1

kRearrangeThreshold == 5

\* "sizeof(ham_u64_t) + 1 (for flags)"
kExtendedDuplicatesSize == 9

\* DefaultInlineRecordImpl::get_max_inline_record_size and
\* get_total_inline_record_size
get_max_inline_record_size == 8
get_total_inline_record_size == 8 + 1

kInitialized == "kInitialized"
kExtendedKey == "kExtendedKey"
kExtendedDuplicatesFlag == "kExtendedDuplicates"

ZeroIndexEntry == [flags |-> {}, size |-> 0, rcount |-> 0, offset |-> 0]

\* the threshold of BinaryKeyList's constructor
m_extended_threshold(page_size, ms_extended_threshold) ==
  IF ms_extended_threshold # 0 THEN ms_extended_threshold
  ELSE IF page_size = 1024 THEN 64
  ELSE IF page_size <= 1024 * 8 THEN 128
  ELSE 256

calculate_extended_threshold_NoSmall(page_size) ==
  IF page_size <= 1024 * 8 THEN 128 ELSE 256

calculate_extended_threshold(page_size) ==
  IF page_size = 1024 THEN 64
  ELSE IF page_size <= 1024 * 8 THEN 128
  ELSE 256

\* get_extended_threshold(): Globals::ms_extended_threshold if it is set
get_extended_threshold(n) ==
  IF n.ms_extended_threshold # 0 THEN n.ms_extended_threshold
  ELSE calculate_extended_threshold(n.page_size)

\* initialize() of a node without keys
EmptyNode(page_size, extended, duplicate, usable, capacity) ==
  [layout |-> "default",
   page_size |-> page_size,
   ms_extended_threshold |-> extended,
   ms_duplicate_threshold |-> duplicate,
   threshold |-> m_extended_threshold(page_size, extended),
   usable |-> usable,
   count |-> 0,
   capacity |-> capacity,
   freelist_count |-> 0,
   next_offset |-> 0,
   index |-> [i \in 0..(capacity - 1) |-> ZeroIndexEntry],
   data |-> [i \in 0..(usable - kSpan * capacity - 1) |-> 0],
   extkey_cache |-> {},
   duptable_cache |-> {}]

get_key_flags(n, slot) == n.index[slot].flags
get_key_size(n, slot) == n.index[slot].size
get_key_data_offset(n, slot) == n.index[slot].offset

\* get_key_data_size(slot): "the size of the memory occupied by the key"
get_key_data_size(n, slot) ==
  IF kExtendedKey \in get_key_flags(n, slot) THEN 8 ELSE get_key_size(n, slot)

\* get_total_key_data_size(slot): "key data + record(s)"
get_total_key_data_size(n, slot) ==
  LET size == IF kExtendedKey \in get_key_flags(n, slot) THEN 8
              ELSE get_key_size(n, slot)
  IN IF kExtendedDuplicatesFlag \in get_key_flags(n, slot)
     THEN size + kExtendedDuplicatesSize
     ELSE size + get_total_inline_record_size * n.index[slot].rcount

get_record_data_size(n, slot) ==
  IF kExtendedDuplicatesFlag \in get_key_flags(n, slot)
  THEN kExtendedDuplicatesSize
  ELSE n.index[slot].rcount * get_total_inline_record_size

\* the offset, in the data area, of a duplicate of a slot
get_inline_record_data(n, slot, duplicate_index) ==
  get_key_data_offset(n, slot) + get_key_data_size(n, slot)
    + get_total_inline_record_size * duplicate_index

\* ---- the index of the node: freelist and next offset
FreelistSlots(n, count) == count..(count + n.freelist_count - 1)

\* calc_next_offset(count): the end of the last chunk, live or free
calc_next_offset(n, count) ==
  LET ends == {get_key_data_offset(n, i) + get_total_key_data_size(n, i) :
                 i \in 0..(count + n.freelist_count - 1)}
  IN IF ends = {} THEN 0 ELSE Max(ends)

\* find_in_freelist(count, size): a free chunk of at least |size| bytes
find_in_freelist(n, count, size) ==
  LET fits == {i \in FreelistSlots(n, count) :
                 get_total_key_data_size(n, i) >= size}
  IN IF fits = {} THEN -1 ELSE Min(fits)

\* moving index entries: memmove(get_key_index_ptr(dst),
\* get_key_index_ptr(src), kSpan * k); an entry beyond the capacity is not
\* part of the index
MoveEntries(index, dst, src, k) ==
  [i \in DOMAIN index |->
     IF i >= dst /\ i < dst + k
     THEN IF src + (i - dst) \in DOMAIN index THEN index[src + (i - dst)]
          ELSE ZeroIndexEntry
     ELSE index[i]]

\* remove_from_freelist(idx): the entries behind it move up
remove_from_freelist(n, count, idx) ==
  [n EXCEPT !.index = MoveEntries(n.index, idx, idx + 1,
                                  count + n.freelist_count - idx - 1),
            !.freelist_count = @ - 1]

\* copy_to_freelist(slot): the entry is appended to the freelist
copy_to_freelist(n, count, slot) ==
  [n EXCEPT !.index[count + n.freelist_count] = n.index[slot],
            !.freelist_count = @ + 1]

\* ---- rearrange(count, force)
RECURSIVE ByOffset(_, _)
ByOffset(n, slots) ==
  IF slots = {} THEN <<>>
  ELSE LET first == CHOOSE s \in slots : \A t \in slots :
                      \/ get_key_data_offset(n, s) < get_key_data_offset(n, t)
                      \/ /\ get_key_data_offset(n, s)
                              = get_key_data_offset(n, t)
                         /\ s <= t
       IN <<first>> \o ByOffset(n, slots \ {first})

RECURSIVE ShiftLeft(_, _, _)
ShiftLeft(n, sorted, next_offset) ==
  IF sorted = <<>> THEN [n EXCEPT !.next_offset = next_offset]
  ELSE LET slot == Head(sorted)
           offset == get_key_data_offset(n, slot)
           size == get_total_key_data_size(n, slot)
           moved == IF offset # next_offset
                    THEN [n EXCEPT
                            !.data = memmove(n.data, next_offset, offset, size),
                            !.index[slot].offset = next_offset]
                    ELSE n
       IN ShiftLeft(moved, Tail(sorted), next_offset + size)

rearrange(n, count, force) ==
  IF ~force /\ n.freelist_count = 0 /\ count > 10 THEN n
  ELSE LET cleared == [n EXCEPT !.freelist_count = 0]
       IN ShiftLeft(cleared, ByOffset(cleared, 0..(count - 1)), 0)

rearranged(n, count, force) ==
  ~(~force /\ n.freelist_count = 0 /\ count > 10)

\* ---- has_enough_space(size, use_extended_keys)
after_has_enough_space(n) ==
  IF n.count = 0 THEN [n EXCEPT !.freelist_count = 0, !.next_offset = 0]
  ELSE n

has_enough_space(n, size, use_extended_keys) ==
  IF n.count = 0 THEN TRUE
  ELSE IF n.count + n.freelist_count >= n.capacity - 2 THEN FALSE
  ELSE LET key == IF use_extended_keys /\ size > get_extended_threshold(n)
                  THEN 8 ELSE size
           rec == IF get_total_inline_record_size < 8 THEN 8
                  ELSE get_total_inline_record_size
           offset == n.next_offset + key + rec + kSpan * n.capacity
       IN \/ offset < n.usable
          \/ find_in_freelist(n, n.count,
                              size + get_total_inline_record_size) # -1

\* requires_split(): the keys of the database are of unlimited size; the
\* capacity is not recalculated (m_recalc_capacity is false)
requires_split(n) ==
  LET size == get_extended_threshold(n)
      Tidied(tidy) ==
        IF rearranged(n, n.count, FALSE) /\ has_enough_space(tidy, size, TRUE)
        THEN [split |-> FALSE, n |-> after_has_enough_space(tidy)]
        ELSE [split |-> TRUE, n |-> tidy]
  IN IF has_enough_space(n, size, TRUE)
     THEN [split |-> FALSE, n |-> after_has_enough_space(n)]
     ELSE Tidied(rearrange(n, n.count, FALSE))

\* ---- extended keys
\* add_extended_key(key): the key goes to a blob and into the cache
add_extended_key(n, bs, key) ==
  [n |-> [n EXCEPT !.extkey_cache = @ \cup {<<NewBlobId(bs), key>>}],
   bs |-> BlobAllocate(bs, key),
   blobid |-> NewBlobId(bs)]

\* get_extended_key(blobid): from the cache, otherwise from the blob
get_extended_key(n, bs, blobid) ==
  IF \E e \in n.extkey_cache : e[1] = blobid
  THEN Returned("ok", (CHOOSE e \in n.extkey_cache : e[1] = blobid)[2])
  ELSE IF BlobExists(bs, blobid) THEN Returned("ok", BlobRead(bs, blobid))
  ELSE Returned("HAM_BLOB_NOT_FOUND", <<>>)

\* erase_extended_key(blobid)
erase_extended_key(n, bs, blobid) ==
  [n |-> [n EXCEPT !.extkey_cache = {e \in @ : e[1] # blobid}],
   bs |-> BlobErase(bs, blobid)]

get_extended_blob_id(n, slot) ==
  BytesAt(n.data, get_key_data_offset(n, slot), 8)

\* get_key(slot, arena, dest)
get_key(n, bs, slot) ==
  LET size == get_key_size(n, slot)
  IN IF kExtendedKey \in get_key_flags(n, slot)
     THEN LET tmp == get_extended_key(n, bs, get_extended_blob_id(n, slot))
          IN IF tmp.st # "ok" THEN tmp
             ELSE Returned("ok", [k \in 1..size |->
                                   IF k <= Len(tmp.data) THEN tmp.data[k]
                                   ELSE 0])
     ELSE Returned("ok", BytesAt(n.data, get_key_data_offset(n, slot), size))

\* ---- insert(slot, key)
\* the chunk of the new key: a free chunk, or the end of the data area
InsertPlace(n, key) ==
  LET count == n.count
      extended_key == Len(key) > get_extended_threshold(n)
      need == (IF extended_key THEN 8 ELSE Len(key))
                + get_total_inline_record_size
      idx == find_in_freelist(n, count, need)
  IN IF idx # -1
     THEN LET offset == get_key_data_offset(n, idx)
              size == get_total_key_data_size(n, idx)
              taken == remove_from_freelist(n, count, idx)
          IN [n |-> IF n.next_offset = offset + size
                    THEN [taken EXCEPT !.next_offset = offset + need]
                    ELSE taken,
              offset |-> offset,
              extended_key |-> extended_key]
     ELSE LET offset == IF count = 0 THEN 0 ELSE n.next_offset
              forced == /\ ~extended_key
                        /\ offset + kSpan * n.capacity + Len(key)
                             + get_total_inline_record_size >= n.usable
              ext == extended_key \/ forced
          IN [n |-> [n EXCEPT !.next_offset =
                       offset + (IF ext THEN 8 ELSE Len(key))
                         + get_total_inline_record_size],
              offset |-> offset,
              extended_key |-> ext]

\* "once more assert that the new key fits"
InsertFits(n, key) ==
  LET p == InsertPlace(n, key)
  IN p.offset + kSpan * n.capacity
       + (IF p.extended_key THEN 8 ELSE Len(key))
       + get_total_inline_record_size <= n.usable

insert(n, bs, slot, key) ==
  LET count == n.count
      \* set_inline_record_count(slot, 1), set_record_flags(kBlobSizeEmpty)
      Counted(counted) ==
        [counted EXCEPT
           !.data[get_inline_record_data(counted, slot, 0)
                    + get_max_inline_record_size] = kBlobSizeEmpty]
      Stored(stored) ==
        [n |-> Counted([stored.n EXCEPT !.index[slot].rcount = 1]),
         bs |-> stored.bs]
      Extended(x, offset) ==
        [n |-> [x.n EXCEPT
                  !.data = memcpy(@, offset, x.blobid),
                  !.index[slot].flags = {kExtendedKey, kInitialized},
                  !.index[slot].size = Len(key)],
         bs |-> x.bs]
      Placed(placed, p) ==
        Stored(IF p.extended_key
               THEN Extended(add_extended_key(placed, bs, key), p.offset)
               ELSE [n |-> [placed EXCEPT
                              !.index[slot].flags = {kInitialized},
                              !.index[slot].size = Len(key),
                              !.data = memcpy(@, p.offset, key)],
                     bs |-> bs])
      Gap(p) ==
        Placed([(IF slot < count \/ p.n.freelist_count > 0
                 THEN [p.n EXCEPT !.index =
                         MoveEntries(p.n.index, slot + 1, slot,
                                     count + p.n.freelist_count - slot)]
                 ELSE p.n)
                  EXCEPT !.index[slot].offset = p.offset],
               p)
  IN Gap(InsertPlace(n, key))

\* ---- the calls on a node
\* Globals::ms_extended_threshold: not set, or set
GlobalExtendedThresholds == {0, 8}

\* a key of |size| bytes
KeyOfSize(size, b) == [k \in 1..size |-> b]

\* keys at the threshold, beyond it and far below it
NodeKeys(n) ==
  {KeyOfSize(size, b) : size \in {1, n.threshold, n.threshold + 1},
                        b \in {1, 2}}

\* the keys and records a node is expected to hold, slot by slot
ExpectedEntry(key, records) == [key |-> key, recs |-> records]

InsertAt(seq, slot, e) ==
  SubSeq(seq, 1, slot) \o <<e>> \o SubSeq(seq, slot + 1, Len(seq))

RemoveAt(seq, slot) ==
  SubSeq(seq, 1, slot) \o SubSeq(seq, slot + 2, Len(seq))

\* get_extended_threshold() leaves the threshold in the global
Cached(n, before) ==
  [n EXCEPT !.ms_extended_threshold = get_extended_threshold(before)]

\* the calls made on the node, and the contents it had before a split
NodeHistory ==
  [recs |-> <<>>, appended |-> TRUE, calls |-> 0, before |-> <<>>,
   moved |-> <<>>, split |-> FALSE]

\* a page of a database with variable-length keys and duplicates becomes
\* a node: initialize()
Node_create(page_size, extended, duplicate, usable, capacity) ==
  /\ node = NoNode
  /\ node' = EmptyNode(page_size, extended,
                       duplicate, usable, capacity)
  /\ call' = BtCall("initialize", "ok",
                    [page_size |-> page_size, ms |-> extended])
  /\ hist' = NodeHistory
  /\ UNCHANGED <<other, blobs, envvars>>

\* BtreeNodeProxy::insert after the caller found that no split is
\* required: requires_split(), insert(slot, key), set_count(count + 1)
Node_insert(slot, key) ==
  /\ node.layout = "default"
  /\ Alive
  /\ slot \in 0..node.count
  /\ \E rs \in {requires_split(node)} :
       \E ins \in {insert(rs.n, blobs, slot, key)} :
        /\ ~rs.split
        /\ node' = Cached([ins.n EXCEPT !.count = @ + 1], node)
        /\ blobs' = ins.bs
        /\ call' = BtCall("insert", "ok", [slot |-> slot, key |-> key])
        /\ hist' = [hist EXCEPT
                      !.recs = InsertAt(@, slot, ExpectedEntry(key, <<<<>>>>)),
                      !.calls = @ + 1,
                      !.split = FALSE]
  /\ UNCHANGED <<other, envvars>>

\* erase_key(slot): "get rid of the extended key (if there is one)"
erase_key(n, bs, slot) ==
  IF kExtendedKey \in get_key_flags(n, slot)
  THEN LET x == erase_extended_key(n, bs, get_extended_blob_id(n, slot))
       IN [n |-> [x.n EXCEPT !.index[slot].flags = @ \ {kExtendedKey},
                             !.index[slot].size = 8],
           bs |-> x.bs]
  ELSE [n |-> n, bs |-> bs]

\* erase(slot)
erase(n, bs, slot) ==
  LET count == n.count
      recalc_offset ==
        n.next_offset = get_key_data_offset(n, slot)
                          + get_key_data_size(n, slot)
                          + get_total_inline_record_size
      k == erase_key(n, bs, slot)
      freed == IF k.n.freelist_count + 1 + count <= k.n.capacity
               THEN copy_to_freelist(k.n, count, slot)
               ELSE k.n
      shifted == [freed EXCEPT !.index =
                    MoveEntries(freed.index, slot, slot + 1,
                                freed.freelist_count + count - slot - 1)]
  IN IF count = 1
     THEN [n |-> [n EXCEPT !.freelist_count = 0, !.next_offset = 0],
           bs |-> bs]
     ELSE [n |-> IF recalc_offset
                 THEN [shifted EXCEPT !.next_offset =
                         calc_next_offset(shifted, count - 1)]
                 ELSE shifted,
           bs |-> k.bs]

\* BtreeNodeProxy::erase: erase(slot), set_count(count - 1)
Node_erase(slot) ==
  /\ node.layout = "default"
  /\ Alive
  /\ slot \in 0..(node.count - 1)
  /\ \E e \in {erase(node, blobs, slot)} :
       /\ node' = [e.n EXCEPT !.count = @ - 1]
       /\ blobs' = e.bs
  /\ call' = BtCall("erase", "ok", [slot |-> slot])
  /\ hist' = [hist EXCEPT !.recs = RemoveAt(@, slot), !.calls = @ + 1,
                          !.split = FALSE]
  /\ UNCHANGED <<other, envvars>>

\* the caller inserts a key that the node does not have at the slot its
\* search found
HasKey(n, bs, key) ==
  \E s \in 0..(n.count - 1) : get_key(n, bs, s) = Returned("ok", key)

\* the order of the keys of a database without a compare function: the
\* first byte that differs decides, then the length
KeyLess(a, b) ==
  LET m == IF Len(a) < Len(b) THEN Len(a) ELSE Len(b)
      diff == {k \in 1..m : a[k] # b[k]}
  IN IF diff # {} THEN a[Min(diff)] < b[Min(diff)] ELSE Len(a) < Len(b)

InsertSlot(n, bs, key) ==
  Cardinality({s \in 0..(n.count - 1) : KeyLess(get_key(n, bs, s).data, key)})

\* the page sizes of the three classes of the threshold
NodePageSizes == {1024, 4096, 16384}

NextNode ==
  \/ \E ps \in NodePageSizes, ms \in GlobalExtendedThresholds :
       Node_create(ps, ms, 0, NodeRange, NodeCapacity)
  \/ /\ hist.calls < MaxNodeCalls
     /\ node.layout = "default"
     /\ \E key \in NodeKeys(node) :
          /\ ~HasKey(node, blobs, key)
          /\ Node_insert(InsertSlot(node, blobs, key), key)
  \/ /\ hist.calls < MaxNodeCalls
     /\ node.layout = "default"
     /\ \E slot \in 0..(node.count - 1) : Node_erase(slot)

SpecNode == Init /\ [][NextNode]_vars

\* the threshold the specification gives for a page size
SpecifiedExtendedThreshold(page_size) ==
  CASE page_size = 1024 -> 64
    [] page_size # 1024 /\ page_size <= 8192 -> 128
    [] page_size > 8192 -> 256

peek(m, at) == IF at \in DOMAIN m THEN m[at] ELSE 0
poke(m, at, v) == IF at \in DOMAIN m THEN [m EXCEPT ![at] = v] ELSE m

\* get_record_flags / set_record_flags of the entry at &m[at]
get_record_flags(m, at) == peek(m, at + get_max_inline_record_size)
set_record_flags(m, at, flags) == poke(m, at + get_max_inline_record_size, flags)

\* DefaultInlineRecordImpl::is_record_inline, table_is_record_inline
entry_is_record_inline(m, at) ==
  BitAnd(get_record_flags(m, at),
         BitOr(kBlobSizeTiny, BitOr(kBlobSizeSmall, kBlobSizeEmpty))) # 0

\* get_inline_record_size, table_get_record_size
get_inline_record_size(m, at) ==
  IF BitAnd(get_record_flags(m, at), kBlobSizeTiny) # 0 THEN peek(m, at + 7)
  ELSE IF BitAnd(get_record_flags(m, at), kBlobSizeSmall) # 0 THEN 8
  ELSE 0

\* set_inline_record_data, table_set_record_data
set_inline_record_data(m, at, data) ==
  IF Len(data) = 0 THEN set_record_flags(m, at, kBlobSizeEmpty)
  ELSE IF Len(data) < 8
  THEN set_record_flags(memcpy(poke(m, at + 7, Len(data)), at, data), at,
                        kBlobSizeTiny)
  ELSE set_record_flags(memcpy(m, at, data), at, kBlobSizeSmall)

\* the id is written and the flags are initialized: set_record_id,
\* table_set_record_id
entry_set_record_id(m, at, id) == set_record_flags(memcpy(m, at, id), at, 0)

\* remove_inline_record
remove_inline_record(m, at) == memcpy(m, at, Zeros(get_total_inline_record_size))

\* the record of the entry at &m[at], inline or from its blob
entry_get_record(m, bs, at) ==
  IF entry_is_record_inline(m, at)
  THEN Returned("ok", BytesAt(m, at, get_inline_record_size(m, at)))
  ELSE IF BlobExists(bs, BytesAt(m, at, 8))
  THEN Returned("ok", BlobRead(bs, BytesAt(m, at, 8)))
  ELSE Returned("HAM_BLOB_NOT_FOUND", <<>>)

\* BlobManager::overwrite: the blob keeps its id
BlobOverwrite(bs, id, bytes) ==
  [k \in 1..Len(bs) |-> IF BlobId(k) = id THEN [bs[k] EXCEPT !.bytes = bytes]
                        ELSE bs[k]]

\* ---- duplicate tables: count, capacity and the entries; the table is
\* the record of a blob, and the node has a cache of the tables it used
\* (the ByteArray a caller works on shares its memory with the cache)
NewTable(count, capacity, bytes) ==
  [count |-> count, capacity |-> capacity,
   data |-> memcpy([i \in 0..(get_total_inline_record_size * capacity - 1)
                      |-> 0], 0, bytes)]

table_get_record_data(duplicate_index) ==
  get_total_inline_record_size * duplicate_index

InDupTableCache(n, tableid) == \E e \in n.duptable_cache : e[1] = tableid

\* get_duplicate_table(tableid): from the cache, otherwise from the blob
get_duplicate_table(n, bs, tableid) ==
  IF InDupTableCache(n, tableid)
  THEN (CHOOSE e \in n.duptable_cache : e[1] = tableid)[2]
  ELSE BlobRead(bs, tableid)

\* the table of the cache is replaced by the one the caller changed
SetCached(n, tableid, table) ==
  [n EXCEPT !.duptable_cache =
     {e \in @ : e[1] # tableid} \cup {<<tableid, table>>}]

\* add_duplicate_table(table)
add_duplicate_table(n, bs, table) ==
  [n |-> SetCached(n, NewBlobId(bs), table),
   bs |-> BlobAllocate(bs, table),
   tableid |-> NewBlobId(bs)]

\* grow_duplicate_table(tableid): "doubles the size of a duplicate table"
grow_duplicate_table(table) ==
  [count |-> table.count, capacity |-> table.count * 2,
   data |-> [i \in 0..(get_total_inline_record_size * table.count * 2 - 1)
               |-> peek(table.data, i)]]

\* flush_duplicate_table(tableid, table)
flush_duplicate_table(bs, tableid, table) == BlobOverwrite(bs, tableid, table)

\* erase_duplicate_table(tableid)
erase_duplicate_table(n, bs, tableid) ==
  [n |-> [n EXCEPT !.duptable_cache = {e \in @ : e[1] # tableid}],
   bs |-> BlobErase(bs, tableid)]

\* table_erase_record(table, duplicate_index)
table_erase_record(table, duplicate_index) ==
  [table EXCEPT
     !.data = IF duplicate_index < table.count - 1
              THEN memmove(@, table_get_record_data(duplicate_index),
                           table_get_record_data(duplicate_index + 1),
                           get_total_inline_record_size
                             * (table.count - duplicate_index - 1))
              ELSE @,
     !.count = @ - 1]

\* clear_caches()
clear_caches(n) == [n EXCEPT !.extkey_cache = {}, !.duptable_cache = {}]

\* get_duplicate_threshold()
get_duplicate_threshold(n) ==
  IF n.ms_duplicate_threshold # 0 THEN n.ms_duplicate_threshold
  ELSE IF n.page_size = 1024 THEN 32
  ELSE IF n.page_size <= 1024 * 8 THEN 64
  ELSE IF n.page_size <= 1024 * 16 THEN 128
  ELSE 255

\* get_record_id(slot) of a key with a duplicate table
get_table_id(n, slot) ==
  BytesAt(n.data, get_inline_record_data(n, slot, 0), 8)

\* get_record_count(slot)
DefaultNodeImpl_get_record_count(n, bs, slot) ==
  IF kExtendedDuplicatesFlag \in get_key_flags(n, slot)
  THEN get_duplicate_table(n, bs, get_table_id(n, slot)).count
  ELSE n.index[slot].rcount

\* get_record(slot, arena, record, flags, duplicate_index)
DefaultNodeImpl_get_record(n, bs, slot, duplicate_index) ==
  IF kExtendedDuplicatesFlag \in get_key_flags(n, slot)
  THEN entry_get_record(get_duplicate_table(n, bs, get_table_id(n, slot)).data,
                        bs, table_get_record_data(duplicate_index))
  ELSE entry_get_record(n.data, bs,
                        get_inline_record_data(n, slot, duplicate_index))

\* ---- allocate(count, total_size, use_freelist), append_key
\* an allocation at the end of the node that does not advance next_offset
allocate_KeepNextOffset(n, count, total_size, use_freelist) ==
  LET idx == IF use_freelist THEN find_in_freelist(n, count, total_size)
             ELSE -1
  IN IF idx # -1
     THEN [n |-> remove_from_freelist(n, count, idx),
           offset |-> get_key_data_offset(n, idx)]
     ELSE [n |-> n, offset |-> IF count = 0 THEN 0 ELSE n.next_offset]

allocate(n, count, total_size, use_freelist) ==
  LET idx == IF use_freelist THEN find_in_freelist(n, count, total_size)
             ELSE -1
  IN IF idx # -1
     THEN LET offset == get_key_data_offset(n, idx)
              size == get_total_key_data_size(n, idx)
              taken == remove_from_freelist(n, count, idx)
          IN [n |-> IF n.next_offset = offset + size
                    THEN [taken EXCEPT !.next_offset = offset + total_size]
                    ELSE taken,
              offset |-> offset]
     ELSE IF count = 0
     THEN [n |-> [n EXCEPT !.next_offset = total_size], offset |-> 0]
     ELSE [n |-> [n EXCEPT !.next_offset = @ + total_size],
           offset |-> n.next_offset]

\* append_key(count, key_data, total_size, use_freelist): the bytes of the
\* key and of its records are copied to the storage allocated for them
append_key(n, count, bytes, use_freelist) ==
  LET a == allocate(n, count, Len(bytes), use_freelist)
  IN [n |-> [a.n EXCEPT !.data = memcpy(@, a.offset, bytes)],
      offset |-> a.offset]

\* ---- set_record(slot, record, duplicate_index, flags, 0)
DuplicateFlags ==
  {HAM_DUPLICATE_INSERT_BEFORE, HAM_DUPLICATE_INSERT_AFTER,
   HAM_DUPLICATE_INSERT_FIRST, HAM_DUPLICATE_INSERT_LAST}

\* "a key is overwritten (NOT in a duplicate table)"
set_record_overwrite(n, bs, slot, record, duplicate_index) ==
  LET at == get_inline_record_data(n, slot, duplicate_index)
      was_inline == entry_is_record_inline(n.data, at)
      ptr == BytesAt(n.data, at, 8)
      unflagged == [n EXCEPT !.index[slot].flags = @ \ {kInitialized}]
  IN IF ~was_inline /\ Len(record) > get_max_inline_record_size
     THEN [n |-> [unflagged EXCEPT
                    !.data = entry_set_record_id(@, at, ptr)],
           bs |-> BlobOverwrite(bs, ptr, record)]
     ELSE LET freed == IF was_inline THEN bs ELSE BlobErase(bs, ptr)
          IN IF Len(record) <= get_max_inline_record_size
             THEN [n |-> [n EXCEPT
                            !.data = set_inline_record_data(@, at, record)],
                   bs |-> freed]
             ELSE [n |-> [unflagged EXCEPT
                            !.data = entry_set_record_id(@, at,
                                                         NewBlobId(freed))],
                   bs |-> BlobAllocate(freed, record)]

\* "a key is overwritten in a duplicate table"
set_record_overwrite_in_table(n, bs, slot, record, duplicate_index) ==
  LET tableid == get_table_id(n, slot)
      table == get_duplicate_table(n, bs, tableid)
      at == table_get_record_data(duplicate_index)
      was_inline == entry_is_record_inline(table.data, at)
      ptr == BytesAt(table.data, at, 8)
  IN IF ~was_inline /\ Len(record) > get_max_inline_record_size
     THEN [n |-> SetCached(n, tableid,
                   [table EXCEPT !.data = entry_set_record_id(@, at, ptr)]),
           bs |-> BlobOverwrite(bs, ptr, record)]
     ELSE LET freed == IF was_inline THEN bs ELSE BlobErase(bs, ptr)
          IN IF Len(record) <= get_max_inline_record_size
             THEN [n |-> SetCached(n, tableid,
                           [table EXCEPT
                              !.data = set_inline_record_data(@, at, record)]),
                   bs |-> freed]
             ELSE [n |-> SetCached(n, tableid,
                           [table EXCEPT
                              !.data = entry_set_record_id(@, at,
                                                           NewBlobId(freed))]),
                   bs |-> BlobAllocate(freed, record)]

\* "already too many duplicates, or the record does not fit?"
force_duptable(n, slot) ==
  \/ n.index[slot].rcount >= get_duplicate_threshold(n)
  \/ ~has_enough_space(n, get_total_key_data_size(n, slot)
                            + get_total_inline_record_size, FALSE)

\* "allocate an overflow duplicate list and move all duplicates to this
\* list"
move_to_duptable(n, bs, slot) ==
  LET threshold == get_duplicate_threshold(n)
      rcount == n.index[slot].rcount
      table == NewTable(rcount, threshold * 2,
                        BytesAt(n.data, get_inline_record_data(n, slot, 0),
                                rcount * get_total_inline_record_size))
      Tidy(linked) ==
        rearrange([linked EXCEPT !.next_offset =
                      calc_next_offset(linked, linked.count)],
                  linked.count, TRUE)
      Linked(moved, tableid) ==
        Tidy([moved EXCEPT
                !.data = entry_set_record_id(@,
                           get_inline_record_data(moved, slot, 0), tableid),
                !.index[slot].rcount = 0])
      Moved(k, tableid) ==
        Linked([k.n EXCEPT
                  !.index[slot].offset = k.offset,
                  !.index[slot].flags =
                     (@ \cup {kExtendedDuplicatesFlag}) \ {kInitialized}],
               tableid)
      Keyed(t) ==
        [n |-> Moved(append_key(t.n, t.n.count,
                                BytesAt(t.n.data,
                                        get_key_data_offset(t.n, slot),
                                        get_key_data_size(t.n, slot)
                                          + kExtendedDuplicatesSize),
                                TRUE),
                     t.tableid),
         bs |-> t.bs]
  IN Keyed(add_duplicate_table(n, bs, table))

\* "a duplicate table exists"
set_record_in_table(n, bs, slot, record, duplicate_index, flags) ==
  LET tableid == get_table_id(n, slot)
      cached == get_duplicate_table(n, bs, tableid)
      count == cached.count
      f == AdjustedFlags(flags, duplicate_index, count)
      i == AdjustedIndex(flags, duplicate_index, count)
      table == IF count = cached.capacity THEN grow_duplicate_table(cached)
               ELSE cached
      shifted ==
        IF HAM_DUPLICATE_INSERT_FIRST \in f
        THEN IF count # 0
             THEN memmove(table.data, table_get_record_data(1),
                          table_get_record_data(0),
                          count * get_total_inline_record_size)
             ELSE table.data
        ELSE IF HAM_DUPLICATE_INSERT_BEFORE \in f
        THEN memmove(table.data, table_get_record_data(i),
                     table_get_record_data(i + 1),
                     (count - i) * get_total_inline_record_size)
        ELSE table.data
      position == IF HAM_DUPLICATE_INSERT_FIRST \in f THEN 0
                  ELSE IF HAM_DUPLICATE_INSERT_BEFORE \in f THEN i
                  ELSE count
      at == table_get_record_data(position)
      stored == IF Len(record) <= get_max_inline_record_size THEN bs
                ELSE BlobAllocate(bs, record)
      Linked(c) ==
        [c EXCEPT
           !.index[slot].flags = @ \ {kInitialized},
           !.data = entry_set_record_id(@,
                      get_inline_record_data(c, slot, 0), tableid)]
      Tabled(result) ==
        [n |-> Linked(SetCached(n, tableid, result)),
         bs |-> flush_duplicate_table(stored, tableid, result)]
      Written(moved) ==
        Tabled([count |-> count + 1, capacity |-> table.capacity,
                 data |-> IF Len(record) <= get_max_inline_record_size
                          THEN set_inline_record_data(moved, at, record)
                          ELSE entry_set_record_id(moved, at,
                                                   NewBlobId(bs))])
  IN Written(shifted)

\* "insert/append a duplicate to an existing inline duplicate list"
set_record_inline_duplicate(n, bs, slot, record, duplicate_index, flags) ==
  LET rcount == n.index[slot].rcount
      old == get_key_data_offset(n, slot)
      size == get_key_data_size(n, slot)
      total == get_total_key_data_size(n, slot)
      f == AdjustedFlags(flags, duplicate_index, rcount)
      i == AdjustedIndex(flags, duplicate_index, rcount)
      orig == old + size
      position == IF HAM_DUPLICATE_INSERT_FIRST \in f THEN 0
                  ELSE IF HAM_DUPLICATE_INSERT_BEFORE \in f THEN i
                  ELSE rcount
      Counted(counted, set_offset) ==
        IF set_offset
        THEN [counted EXCEPT !.next_offset =
                calc_next_offset(counted, counted.count)]
        ELSE counted
      Written(a, copied) ==
        Counted([a.n EXCEPT
                   !.index[slot].offset = a.offset,
                   !.index[slot].flags =
                      IF Len(record) <= get_max_inline_record_size THEN @
                      ELSE @ \ {kInitialized},
                   !.data =
                      IF Len(record) <= get_max_inline_record_size
                      THEN set_inline_record_data(copied,
                             a.offset + size
                               + get_total_inline_record_size * position,
                             record)
                      ELSE entry_set_record_id(copied,
                             a.offset + size
                               + get_total_inline_record_size * position,
                             NewBlobId(bs)),
                   !.index[slot].rcount = rcount + 1],
                a.n.next_offset = old + total)
      Behind(head, dest) ==
        memcpy(head, dest + (i + 1) * get_total_inline_record_size,
               BytesAt(head, orig + i * get_total_inline_record_size,
                       (rcount - i) * get_total_inline_record_size))
      Copied(keyed, dest) ==
        IF HAM_DUPLICATE_INSERT_FIRST \in f
        THEN memcpy(keyed, dest + get_total_inline_record_size,
                    BytesAt(keyed, orig,
                            rcount * get_total_inline_record_size))
        ELSE IF HAM_DUPLICATE_INSERT_BEFORE \in f
        THEN Behind(memcpy(keyed, dest,
                           BytesAt(keyed, orig,
                                   i * get_total_inline_record_size)),
                    dest)
        ELSE memcpy(keyed, dest,
                    BytesAt(keyed, orig,
                            rcount * get_total_inline_record_size))
      Keyed(a) ==
        Written(a, Copied(memcpy(a.n.data, a.offset,
                                 BytesAt(a.n.data, old, size)),
                          a.offset + size))
  IN [n |-> Keyed(allocate(n, n.count,
                           total + get_total_inline_record_size, TRUE)),
      bs |-> IF Len(record) <= get_max_inline_record_size THEN bs
             ELSE BlobAllocate(bs, record)]

set_record(n, bs, slot, record, duplicate_index, flags) ==
  LET initialized == kInitialized \in get_key_flags(n, slot)
      f == IF flags \cap DuplicateFlags = {} \/ initialized
           THEN flags \cup {HAM_OVERWRITE} ELSE flags
      i == IF initialized THEN 0 ELSE duplicate_index
      extended == kExtendedDuplicatesFlag \in get_key_flags(n, slot)
      InTable(t) == set_record_in_table(t.n, t.bs, slot, record, i, f)
      Set(n1) ==
        IF HAM_OVERWRITE \in f /\ ~extended
        THEN set_record_overwrite(n1, bs, slot, record, i)
        ELSE IF HAM_OVERWRITE \in f
        THEN set_record_overwrite_in_table(n1, bs, slot, record, i)
        ELSE IF extended \/ force_duptable(n1, slot)
        THEN InTable(IF extended THEN [n |-> n1, bs |-> bs]
                     ELSE move_to_duptable(n1, bs, slot))
        ELSE set_record_inline_duplicate(n1, bs, slot, record, i, f)
  IN Set(IF initialized
         THEN [n EXCEPT !.index[slot].flags = @ \ {kInitialized}]
         ELSE n)

\* ---- erase_record(slot, duplicate_index, all_duplicates)
RECURSIVE EraseBlobs(_, _, _, _)
EraseBlobs(bs, m, at, k) ==
  IF k = 0 THEN bs
  ELSE EraseBlobs(IF entry_is_record_inline(m, at) THEN bs
                  ELSE BlobErase(bs, BytesAt(m, at, 8)),
                  m, at + get_total_inline_record_size, k - 1)

RECURSIVE RemoveInlineRecords(_, _, _)
RemoveInlineRecords(m, at, k) ==
  IF k = 0 THEN m
  ELSE RemoveInlineRecords(remove_inline_record(m, at),
                           at + get_total_inline_record_size, k - 1)

erase_record_in_table(n, bs, slot, duplicate_index, all_duplicates) ==
  LET tableid == get_table_id(n, slot)
      cached == get_duplicate_table(n, bs, tableid)
      at == table_get_record_data(duplicate_index)
      freed == IF all_duplicates
               THEN EraseBlobs(bs, cached.data, 0, cached.count)
               ELSE EraseBlobs(bs, cached.data, at, 1)
      table == IF all_duplicates THEN [cached EXCEPT !.count = 0]
               ELSE table_erase_record(cached, duplicate_index)
      c == SetCached(n, tableid, table)
  IN IF table.count = 0
     THEN LET unflagged == [c EXCEPT !.index[slot].flags =
                              @ \ {kExtendedDuplicatesFlag}]
              e == erase_duplicate_table(unflagged, freed, tableid)
          IN [n |-> IF n.next_offset = get_key_data_offset(n, slot)
                                         + get_key_data_size(n, slot)
                                         + kExtendedDuplicatesSize
                    THEN [e.n EXCEPT !.next_offset =
                            @ - kExtendedDuplicatesSize]
                    ELSE e.n,
              bs |-> e.bs]
     ELSE [n |-> [c EXCEPT
                    !.index[slot].flags = @ \ {kInitialized},
                    !.data = entry_set_record_id(@,
                               get_inline_record_data(c, slot, 0), tableid)],
           bs |-> flush_duplicate_table(freed, tableid, table)]

erase_record_inline(n, bs, slot, duplicate_index, all_duplicates) ==
  LET record_count == n.index[slot].rcount
      first == get_inline_record_data(n, slot, 0)
      at == get_inline_record_data(n, slot, duplicate_index)
      at_tail == n.next_offset = get_key_data_offset(n, slot)
                                   + get_key_data_size(n, slot)
                                   + get_total_inline_record_size
                                       * record_count
  IN IF all_duplicates
     THEN [n |-> [n EXCEPT
                    !.data = RemoveInlineRecords(@, first, record_count),
                    !.index[slot].rcount = 0,
                    !.next_offset =
                       IF at_tail
                       THEN get_key_data_offset(n, slot)
                              + get_key_data_size(n, slot)
                       ELSE @],
           bs |-> EraseBlobs(bs, n.data, first, record_count)]
     ELSE [n |-> [n EXCEPT
                    !.data =
                       IF duplicate_index + 1 < record_count
                       THEN memmove(@, at, at + get_total_inline_record_size,
                                    get_total_inline_record_size
                                      * (record_count - 1))
                       ELSE remove_inline_record(@, at),
                    !.index[slot].rcount = record_count - 1,
                    !.next_offset =
                       IF at_tail THEN @ - get_total_inline_record_size
                       ELSE @],
           bs |-> EraseBlobs(bs, n.data, at, 1)]

erase_record(n, bs, slot, duplicate_index, all_duplicates) ==
  IF kExtendedDuplicatesFlag \in get_key_flags(n, slot)
  THEN erase_record_in_table(n, bs, slot, duplicate_index, all_duplicates)
  ELSE erase_record_inline(n, bs, slot, duplicate_index, all_duplicates)

\* ---- split(other, pivot) and merge_from(other)
\* the bytes of the key and of the records of a slot
ChunkBytes(n, slot) ==
  BytesAt(n.data, get_key_data_offset(n, slot),
          get_key_data_size(n, slot) + get_record_data_size(n, slot))

\* "for each new key: copy the key data": the keys first..(first + k - 1)
\* of |src| become the keys at..(at + k - 1) of |dst|
RECURSIVE AppendKeys(_, _, _, _, _)
AppendKeys(dst, src, at, first, k) ==
  IF k = 0 THEN dst
  ELSE LET a == append_key(dst, at, ChunkBytes(src, first), FALSE)
       IN AppendKeys([a.n EXCEPT !.index[at].offset = a.offset,
                                 !.index[at].size = get_key_size(src, first)],
                     src, at + 1, first + 1, k - 1)

\* the entries first..(first + k - 1) of |src| are copied to the index of
\* |dst|, from the entry |at| on
CopyEntries(dst, src, at, first, k) ==
  [dst EXCEPT !.index =
     [i \in DOMAIN @ |-> IF i >= at /\ i < at + k THEN src.index[first + i - at]
                          ELSE @[i]]]

\* UpfrontIndex::set_capacity of a node without keys
set_capacity(n, capacity) ==
  EmptyNode(n.page_size, n.ms_extended_threshold, n.ms_duplicate_threshold,
            n.usable, capacity)

\* split(other, pivot): the node that keeps the keys below the pivot
split(n, pivot, is_leaf) ==
  LET start == IF is_leaf THEN pivot ELSE pivot + 1
      count == n.count - start
      cleared == clear_caches(n)
      freed == [cleared EXCEPT !.freelist_count = @ + count]
  IN IF freed.freelist_count > kRearrangeThreshold
     THEN rearrange(freed, pivot, FALSE)
     ELSE [freed EXCEPT !.next_offset = calc_next_offset(freed, pivot)]

\* split(other, pivot): the sibling, which gets the keys from the pivot on
split_other(n, o, pivot, is_leaf) ==
  LET start == IF is_leaf THEN pivot ELSE pivot + 1
      count == n.count - start
      sized == IF o.capacity <= count THEN set_capacity(o, count + 1) ELSE o
  IN AppendKeys(CopyEntries(sized, n, 0, start, count), n, 0, start, count)

\* merge_from(other)
merge_from(n, o) ==
  LET count == n.count
      tidy == rearrange(n, count, TRUE)
  IN AppendKeys(CopyEntries(tidy, o, count, 0, o.count), o, count, 0, o.count)

\* ---- check_index_integrity(count)
RangeBefore(n, s, t) ==
  \/ get_key_data_offset(n, s) < get_key_data_offset(n, t)
  \/ /\ get_key_data_offset(n, s) = get_key_data_offset(n, t)
     /\ \/ get_total_key_data_size(n, s) < get_total_key_data_size(n, t)
        \/ /\ get_total_key_data_size(n, s) = get_total_key_data_size(n, t)
           /\ s <= t

RECURSIVE SortRanges(_, _)
SortRanges(n, slots) ==
  IF slots = {} THEN <<>>
  ELSE LET first == CHOOSE s \in slots : \A t \in slots : RangeBefore(n, s, t)
       IN <<first>> \o SortRanges(n, slots \ {first})

check_index_integrity(n, count) ==
  LET total == count + n.freelist_count
      ends == {get_key_data_offset(n, i) + get_total_key_data_size(n, i) :
                 i \in 0..(total - 1)}
      next_offset == IF ends = {} THEN 0 ELSE Max(ends)
      ranges == SortRanges(n, 0..(total - 1))
  IN IF \E i \in 1..(Len(ranges) - 1) :
          get_key_data_offset(n, ranges[i])
            + get_total_key_data_size(n, ranges[i])
              > get_key_data_offset(n, ranges[i + 1])
     THEN "HAM_INTEGRITY_VIOLATED"
     ELSE IF next_offset # n.next_offset THEN "HAM_INTEGRITY_VIOLATED"
     ELSE IF next_offset # calc_next_offset(n, count)
     THEN "HAM_INTEGRITY_VIOLATED"
     ELSE "ok"

\* ---- what a node holds: the keys and the records of its slots, as
\* get_key, get_record_count and get_record return them
Contents(n, bs) ==
  [s \in 1..n.count |->
     ExpectedEntry(get_key(n, bs, s - 1),
                   [i \in 1..DefaultNodeImpl_get_record_count(n, bs, s - 1) |->
                      DefaultNodeImpl_get_record(n, bs, s - 1, i - 1)])]

\* ---- the calls
\* BtreeNodeProxy::set_record after the caller found that no split is
\* required
Node_set_record(slot, duplicate_index, record, flags) ==
  /\ node.layout = "default"
  /\ Alive
  /\ slot \in 0..(node.count - 1)
  /\ \E rs \in {requires_split(node)} :
        /\ ~rs.split
        /\ DefaultNodeImpl_get_record_count(rs.n, blobs, slot) > 0
        /\ duplicate_index
             < DefaultNodeImpl_get_record_count(rs.n, blobs, slot)
        /\ \E sr \in {set_record(rs.n, blobs, slot, record,
                                  duplicate_index, flags)} :
             /\ node' = Cached(sr.n, node)
             /\ blobs' = sr.bs
        /\ hist' = [hist EXCEPT
                      !.recs[slot + 1].recs =
                         IF kInitialized \in get_key_flags(node, slot)
                         THEN <<record>>
                         ELSE ExpectedAfterSet(@, duplicate_index, record,
                                IF flags \cap DuplicateFlags = {}
                                THEN {HAM_OVERWRITE} ELSE flags),
                      !.calls = @ + 1,
                      !.split = FALSE]
  /\ call' = BtCall("set_record", "ok",
                    [slot |-> slot, duplicate_index |-> duplicate_index,
                     flags |-> flags])
  /\ UNCHANGED <<other, envvars>>

\* erase_record(slot, duplicate_index, all_duplicates)
Node_erase_record(slot, duplicate_index, all_duplicates) ==
  /\ node.layout = "default"
  /\ Alive
  /\ slot \in 0..(node.count - 1)
  /\ duplicate_index < DefaultNodeImpl_get_record_count(node, blobs, slot)
  /\ \E er \in {erase_record(node, blobs, slot, duplicate_index,
                                all_duplicates)} :
       /\ node' = er.n
       /\ blobs' = er.bs
  /\ hist' = [hist EXCEPT
                !.recs[slot + 1].recs =
                   IF all_duplicates THEN <<>>
                   ELSE RemoveAt(@, duplicate_index),
                !.calls = @ + 1,
                !.split = FALSE]
  /\ call' = BtCall("erase_record", "ok",
                    [slot |-> slot, duplicate_index |-> duplicate_index,
                     all_duplicates |-> all_duplicates])
  /\ UNCHANGED <<other, envvars>>

\* rearrange(count, force)
Node_rearrange(force) ==
  /\ node.layout = "default"
  /\ Alive
  /\ node' = rearrange(node, node.count, force)
  /\ hist' = [hist EXCEPT !.calls = @ + 1, !.split = FALSE]
  /\ call' = BtCall("rearrange", "ok", [force |-> force])
  /\ UNCHANGED <<other, blobs, envvars>>

\* BtreeNodeProxy::split: a node with at least two keys is split at
\* |pivot| into a new, empty sibling of |capacity|; the counts of the two
\* nodes are set.  The pivot of an internal node goes to the parent.
Node_split(pivot, capacity, is_leaf) ==
  /\ node.layout = "default"
  /\ Alive
  /\ other = NoNode
  /\ node.count >= 2
  /\ pivot \in 1..(node.count - 1)
  /\ LET sibling == EmptyNode(node.page_size, node.ms_extended_threshold,
                              node.ms_duplicate_threshold, node.usable,
                              capacity)
     IN /\ node' = [split(node, pivot, is_leaf) EXCEPT !.count = pivot]
        /\ other' = [split_other(node, sibling, pivot, is_leaf)
                       EXCEPT !.count = IF is_leaf THEN node.count - pivot
                                        ELSE node.count - pivot - 1]
  /\ hist' = [hist EXCEPT
                !.recs = SubSeq(@, 1, pivot),
                !.moved = SubSeq(hist.recs,
                                 IF is_leaf THEN pivot + 1 ELSE pivot + 2,
                                 Len(hist.recs)),
                !.before = Contents(node, blobs),
                !.split = is_leaf,
                !.calls = @ + 1]
  /\ call' = BtCall("split", "ok", [pivot |-> pivot, is_leaf |-> is_leaf])
  /\ UNCHANGED <<blobs, envvars>>

\* BtreeNodeProxy::merge_from: the keys of the sibling come back, and the
\* page of the sibling is given up
Node_merge_from ==
  /\ node.layout = "default"
  /\ Alive
  /\ other # NoNode
  /\ node.count + other.count <= node.capacity
  /\ node' = [merge_from(node, clear_caches(other))
                EXCEPT !.count = node.count + other.count]
  /\ other' = NoNode
  /\ hist' = [hist EXCEPT
                !.recs = @ \o hist.moved,
                !.moved = <<>>,
                !.split = FALSE,
                !.calls = @ + 1]
  /\ call' = BtCall("merge_from", "ok", [after_split |-> hist.split])
  /\ UNCHANGED <<blobs, envvars>>

\* ---- a leaf with keys, records, duplicates and a sibling
MaxLeafCalls == 3

\* the number of keys a leaf has when it is loaded
MaxLoaded == 2

\* the threshold for extended keys and the one for duplicate tables that
\* the tests set in the globals
LeafExtendedThreshold == 8
LeafDuplicateThreshold == 1

\* a key below the threshold, one at the threshold and one beyond it, in
\* their order
LeafNodeKeys ==
  <<KeyOfSize(1, 1), KeyOfSize(LeafExtendedThreshold, 2),
    KeyOfSize(LeafExtendedThreshold + 1, 3)>>

\* a small record, and one that goes to a blob
SmallRecord == <<1, 2, 3, 4, 5, 6, 7, 8>>
BlobRecord == <<1, 2, 3, 4, 5, 6, 7, 8, 9, 10, 11, 12>>

\* a record is overwritten, appended to the duplicates, or put before them
LeafRecords ==
  {[record |-> BlobRecord, flags |-> {HAM_OVERWRITE}],
   [record |-> TinyRecord, flags |-> {HAM_DUPLICATE_INSERT_LAST}],
   [record |-> <<>>, flags |-> {HAM_DUPLICATE_INSERT_BEFORE}]}

\* the leaf after its keys were inserted one after the other, each with a
\* record, and the first of them with |dups| more
LoadKey(l, key) ==
  CHOOSE sr \in
    UNION {{set_record(rs.n, ins.bs, ins.n.count, SmallRecord, 0, {}) :
              rs \in {requires_split([ins.n EXCEPT !.count = @ + 1])}} :
             ins \in {insert(first.n, l.bs, l.n.count, key) :
                        first \in {requires_split(l.n)}}} : TRUE

RECURSIVE LoadKeys(_, _)
LoadKeys(l, keys) ==
  IF keys = <<>> THEN l
  ELSE CHOOSE loaded \in
         {LoadKeys([n |-> sr.n, bs |-> sr.bs], Tail(keys)) :
            sr \in {LoadKey(l, Head(keys))}} : TRUE

RECURSIVE LoadDuplicates(_, _)
LoadDuplicates(l, dups) ==
  IF dups = 0 THEN l
  ELSE CHOOSE loaded \in
         {LoadDuplicates([n |-> sr.n, bs |-> sr.bs], dups - 1) :
            sr \in {set_record(rs.n, l.bs, 0, TinyRecord, 0,
                               {HAM_DUPLICATE_INSERT_LAST}) :
              rs \in {requires_split(l.n)}}} : TRUE

Loadable(keys, dups) ==
  /\ \A i \in 1..(Len(keys) - 1) : KeyLess(keys[i], keys[i + 1])
  /\ dups > 0 => keys # <<>>

ExpectedLoaded(keys, dups) ==
  [i \in 1..Len(keys) |->
     ExpectedEntry(keys[i],
                   IF i = 1 THEN <<SmallRecord>> \o [d \in 1..dups |-> TinyRecord]
                   ELSE <<SmallRecord>>)]

\* a page of the leaf is fetched: the node is the one its history left
Node_load(keys, dups) ==
  /\ node = NoNode
  /\ Loadable(keys, dups)
  /\ \E k \in {LoadKeys([n |-> EmptyNode(1024, LeafExtendedThreshold,
                                         LeafDuplicateThreshold, NodeRange,
                                         NodeCapacity),
                         bs |-> NoBlobs], keys)} :
       \E l \in {LoadDuplicates(k, dups)} :
         /\ node' = l.n
         /\ blobs' = l.bs
  /\ hist' = [NodeHistory EXCEPT !.recs = ExpectedLoaded(keys, dups)]
  /\ call' = BtCall("load", "ok", [keys |-> keys, dups |-> dups])
  /\ UNCHANGED <<other, envvars>>

LoadableKeys ==
  {<<>>} \cup {<<LeafNodeKeys[i]>> : i \in 1..3}
    \cup {<<LeafNodeKeys[i], LeafNodeKeys[j]>> : i, j \in 1..3}

NextLeaf ==
  \/ \E keys \in {k \in LoadableKeys : Len(k) <= MaxLoaded}, dups \in 0..2 :
       Node_load(keys, dups)
  \/ /\ hist.calls < MaxLeafCalls
     /\ node.layout = "default"
     /\ \E i \in 1..3 :
          /\ ~HasKey(node, blobs, LeafNodeKeys[i])
          /\ Node_insert(InsertSlot(node, blobs, LeafNodeKeys[i]),
                         LeafNodeKeys[i])
  \/ /\ hist.calls < MaxLeafCalls
     /\ node.layout = "default"
     /\ \E slot \in 0..(node.count - 1) : Node_erase(slot)
  \/ /\ hist.calls < MaxLeafCalls
     /\ node.layout = "default"
     /\ \E slot \in 0..(node.count - 1) :
          \E set \in LeafRecords : Node_set_record(slot, 0, set.record, set.flags)
  \/ /\ hist.calls < MaxLeafCalls
     /\ node.layout = "default"
     /\ \E slot \in 0..(node.count - 1), all \in BOOLEAN :
          Node_erase_record(slot, 0, all)
  \/ /\ hist.calls < MaxLeafCalls
     /\ \E pivot \in 1..MaxLoaded, capacity \in {1, NodeCapacity},
           is_leaf \in BOOLEAN :
          Node_split(pivot, capacity, is_leaf)
  \/ /\ hist.calls < MaxLeafCalls
     /\ Node_merge_from
  \/ /\ hist.calls < MaxLeafCalls
     /\ \E force \in BOOLEAN : Node_rearrange(force)

SpecLeaf == Init /\ [][NextLeaf]_vars

\* what the calls made so far let the node hold
AsRead(entries) ==
  [i \in 1..Len(entries) |->
     ExpectedEntry(Returned("ok", entries[i].key),
                   [d \in 1..Len(entries[i].recs) |->
                      Returned("ok", entries[i].recs[d])])]

\* C15: split followed by merge is the identity on the contents: for a
\* leaf with at least two keys and a pivot with 0 < pivot < count,
\* split(other, pivot) into an empty sibling followed by merge_from(other)
\* yields a node whose sequence of (key, records) is the one before the
\* split, in the same order.
C15_SplitMerge ==
  (node.layout = "default" /\ call.op = "merge_from" /\ call.args.after_split)
    => Contents(node, blobs) = hist.before

\* the chunks of two slots of the node have a byte in common
Overlap(n, s, t) ==
  /\ get_key_data_offset(n, s)
       < get_key_data_offset(n, t) + get_total_key_data_size(n, t)
  /\ get_key_data_offset(n, t)
       < get_key_data_offset(n, s) + get_total_key_data_size(n, s)

IndexIntegrity(n) ==
  /\ \A s, t \in 0..(n.count - 1) : s # t => ~Overlap(n, s, t)
  /\ \A s \in 0..(n.count + n.freelist_count - 1) :
       get_key_data_offset(n, s) + get_total_key_data_size(n, s)
         <= n.next_offset
  /\ n.count + n.freelist_count > 0 =>
       \E s \in 0..(n.count + n.freelist_count - 1) :
         get_key_data_offset(n, s) + get_total_key_data_size(n, s)
           = n.next_offset
  /\ n.count + n.freelist_count = 0 => n.next_offset = 0
  /\ check_index_integrity(n, n.count) = "ok"

NodeCalls ==
  {"insert", "erase", "set_record", "erase_record", "split", "merge_from",
   "rearrange"}

\* C16: after every completed insert, erase, set_record, erase_record,
\* split, merge_from and rearrange of a node of the default layout no two
\* chunks of live slots overlap and next_offset is the maximum of offset +
\* size over the live and the freelist slots, so that the check of the
\* index of the node does not report HAM_INTEGRITY_VIOLATED; this holds
\* for the sibling a split has filled as well.
C16_IndexIntegrity ==
  (node.layout = "default" /\ call.op \in NodeCalls) =>
    /\ IndexIntegrity(node)
    /\ other # NoNode => IndexIntegrity(other)

C16_Witness ==
  /\ node.layout = "default"
  /\ call.op = "insert"
  /\ hist.calls = 3
  /\ node.count = 2
  /\ node.freelist_count = 1
  /\ other # NoNode
  /\ other.count = 1
  /\ IndexIntegrity(node)

\* ------------------------- UpfrontIndex: slots, freelist, space (live)
\* the capacity of the index, the bytes behind the index entries, and the
\* number of calls on an index
IndexCapacity == 2
IndexData == 6
MaxIndexCalls == 8

\* the size of a range with |capacity| index entries and |data| bytes
IndexFullSize(capacity, data) ==
  kIndexPayloadOffset + capacity * get_full_index_size + data

\* the memory at &m_data[kPayloadOffset]: the index entries, and, seen as
\* index entries, the bytes that follow them
IndexMemory(capacity, full_size_bytes) ==
  [UpfrontIndex_allocate(capacity, full_size_bytes) EXCEPT
     !.chunk = [sl \in 0..(capacity + MaxIndexCalls + 1) |->
                  [offset |-> 0, size |-> 0]]]

get_chunk_size(ix, slot) == ix.chunk[slot].size

\* can_insert_slot(count)
can_insert_slot(ix, count) ==
  IF count < ix.capacity THEN TRUE ELSE ix.freelist_count > 0

\* insert_slot(slot, count, offset, size)
insert_slot(ix, slot, count, offset, size) ==
  LET total_count == count + ix.freelist_count
      gap == IF total_count > 0 /\ slot < total_count
             THEN [j \in DOMAIN ix.chunk |->
                     IF j > slot /\ j <= total_count THEN ix.chunk[j - 1]
                     ELSE ix.chunk[j]]
             ELSE ix.chunk
  IN [ix EXCEPT !.chunk = [gap EXCEPT ![slot] = [offset |-> offset,
                                                 size |-> size]]]

\* the highest index entry insert_slot writes
insert_slot_last(ix, slot, count) ==
  IF count + ix.freelist_count > 0 /\ slot < count + ix.freelist_count
  THEN count + ix.freelist_count
  ELSE slot

\* erase_slot(slot, count)
erase_slot(ix, slot, count) ==
  LET total_count == count + ix.freelist_count
      counted == [ix EXCEPT !.freelist_count = @ + 1,
                            !.rearrange_counter = @ + 1]
      copied == [ix.chunk EXCEPT ![total_count] = ix.chunk[slot]]
  IN IF slot = count - 1 THEN counted
     ELSE [counted EXCEPT !.chunk =
             [j \in DOMAIN copied |->
                IF j >= slot /\ j < total_count THEN copied[j + 1]
                ELSE copied[j]]]

\* the highest index entry erase_slot reads or writes
erase_slot_last(ix, slot, count) ==
  IF slot = count - 1 THEN -1 ELSE count + ix.freelist_count

\* rearrange(count): "moves all keys sequentially to the beginning of the
\* key space, removes the whole freelist"
UpfrontIndex_rearrange(ix, count) == [ix EXCEPT !.rearrange_counter = 0]

\* the bytes of an index entry (offset and size of 2 bytes each), and the
\* entry that 4 bytes are
ByteOf(e, k) ==
  CASE k = 0 -> e.offset % 256
    [] k = 1 -> e.offset \div 256
    [] k = 2 -> e.size % 256
    [] k = 3 -> e.size \div 256

\* memcpy(p, p + get_full_index_size(), n), p the entry of |slot|
CopyDown(chunk, slot, n) ==
  [j \in DOMAIN chunk |->
     IF j < slot \/ get_full_index_size * (j - slot) >= n THEN chunk[j]
     ELSE LET next == IF j + 1 \in DOMAIN chunk THEN chunk[j + 1]
                      ELSE [offset |-> 0, size |-> 0]
              B(k) == IF get_full_index_size * (j - slot) + k < n
                      THEN ByteOf(next, k) ELSE ByteOf(chunk[j], k)
          IN [offset |-> B(0) + 256 * B(1), size |-> B(2) + 256 * B(3)]]

\* the freelist entry allocate_space() takes: the first that is large
\* enough, or -1
FreelistFit(ix, count, num_bytes) ==
  LET fits == {i \in count..(count + ix.freelist_count - 1) :
                 get_chunk_size(ix, i) >= num_bytes}
  IN IF fits = {} THEN -1 ELSE Min(fits)

\* allocate_space(count, slot, num_bytes): the index after it, the offset
\* it returns, and whether it ended in ham_assert(!"shouldn't be here")
UpfrontIndex_allocate_space(ix, count, slot, num_bytes) ==
  LET i == FreelistFit(ix, count, num_bytes)
      total_count == count + ix.freelist_count
      Taken(chunk) ==
        [ix |-> [ix EXCEPT !.chunk = chunk, !.freelist_count = @ - 1],
         offset |-> chunk[slot].offset, st |-> "ok"]
  IN IF allocate_space_fits(ix, num_bytes)
     THEN [ix |-> allocate_space(ix, slot, num_bytes),
           offset |-> ix.next_offset, st |-> "ok"]
     ELSE IF i # -1
     THEN Taken(CopyDown([ix.chunk EXCEPT ![slot] = ix.chunk[i]], slot,
                         total_count - i - 1))
     ELSE [ix |-> ix, offset |-> -1, st |-> "assert"]

\* the highest index entry allocate_space reads or writes
allocate_space_last(ix, count, slot, num_bytes) ==
  LET i == FreelistFit(ix, count, num_bytes)
      n == count + ix.freelist_count - i - 1
  IN IF allocate_space_fits(ix, num_bytes) THEN slot
     ELSE IF i = -1 THEN count + ix.freelist_count - 1
     ELSE Max({i, slot} \cup {slot + 1 + ((n - 1) \div get_full_index_size) :
                               x \in {y \in {n} : y > 0}})

\* requires_split(count, key): "unlike implied by the name, this function
\* will try to re-arrange the node"
UpfrontIndex_requires_split(ix, count, size) ==
  ~can_insert_slot(ix, count) /\ ~can_allocate_space(ix, count, size)

after_requires_split(ix, count, size) ==
  IF can_insert_slot(ix, count) THEN ix
  ELSE after_can_allocate_space(ix, count, size)

\* ---- the calls on an index; the caller keeps the number of used slots
IndexHistory ==
  [calls |-> 0,
   live |-> <<>>,        \* the chunks the used slots were given
   freed |-> <<>>,       \* the chunks erased and not given out again
   pending |-> -1,       \* the slot that was inserted and has no space yet
   guard |-> -1,         \* requires_split() returned false for this size
   unguarded |-> FALSE,  \* a slot was inserted without can_insert_slot()
   touched |-> -1]       \* the highest index entry a call read or wrote

Chunk(offset, size) == [offset |-> offset, size |-> size]

IsIndex == node.layout = "index" /\ call.st # "assert"

\* what the tail, the freelist or a rearrange that compacts the used
\* chunks can supply
LiveBytes(ix, count) ==
  LET RECURSIVE Sum(_)
      Sum(k) == IF k = 0 THEN 0 ELSE get_chunk_size(ix, k - 1) + Sum(k - 1)
  IN Sum(count)

CanSupply(ix, count, num_bytes) ==
  \/ ix.next_offset + num_bytes <= ix.full_size
  \/ \E i \in count..(count + ix.freelist_count - 1) :
       get_chunk_size(ix, i) >= num_bytes
  \/ /\ ix.rearrange_counter > 0
     /\ kIndexPayloadOffset + ix.capacity * get_full_index_size
          + LiveBytes(ix, count) + num_bytes <= ix.full_size

Index_create(capacity, data) ==
  /\ node = NoNode
  /\ node' = [layout |-> "index",
              ix |-> IndexMemory(capacity, IndexFullSize(capacity, data)),
              count |-> 0]
  /\ hist' = IndexHistory
  /\ call' = BtCall("allocate", "ok", [capacity |-> capacity])
  /\ UNCHANGED <<other, blobs, envvars>>

Index_can_allocate_space(num_bytes) ==
  /\ IsIndex
  /\ hist.pending = -1
  /\ node' = [node EXCEPT !.ix = after_can_allocate_space(@, node.count,
                                                          num_bytes)]
  /\ hist' = [hist EXCEPT !.calls = @ + 1, !.guard = -1,
                          !.touched = node.count + node.ix.freelist_count - 1]
  /\ call' = BtCall("can_allocate_space", "ok",
                    [num_bytes |-> num_bytes,
                     result |-> can_allocate_space(node.ix, node.count,
                                                   num_bytes),
                     supply |-> CanSupply(node.ix, node.count, num_bytes),
                     rearranged |->
                       /\ ~can_allocate_space(node.ix, node.count, num_bytes)
                       /\ node.ix.rearrange_counter > 0])
  /\ UNCHANGED <<other, blobs, envvars>>

Index_requires_split(size) ==
  /\ IsIndex
  /\ hist.pending = -1
  /\ node' = [node EXCEPT !.ix = after_requires_split(@, node.count, size)]
  /\ hist' = [hist EXCEPT
                !.calls = @ + 1,
                !.guard = IF UpfrontIndex_requires_split(node.ix, node.count,
                                                         size)
                          THEN -1 ELSE size,
                !.touched = IF can_insert_slot(node.ix, node.count) THEN -1
                            ELSE node.count + node.ix.freelist_count - 1]
  /\ call' = BtCall("requires_split", "ok",
                    [size |-> size,
                     result |-> UpfrontIndex_requires_split(node.ix,
                                                            node.count, size),
                     supply |-> CanSupply(node.ix, node.count, size),
                     free_entry |-> node.count + node.ix.freelist_count
                                      < node.ix.capacity])
  /\ UNCHANGED <<other, blobs, envvars>>

\* insert_slot(slot, count, 0, size), and the caller counts the slot
Index_insert_slot(slot, size) ==
  /\ IsIndex
  /\ hist.pending = -1
  /\ slot \in 0..node.count
  /\ can_insert_slot(node.ix, node.count) \/ hist.guard = size
  /\ hist.guard \in {-1, size}
  /\ node' = [node EXCEPT !.ix = insert_slot(@, slot, node.count, 0, size),
                          !.count = @ + 1]
  /\ hist' = [hist EXCEPT
                !.calls = @ + 1,
                !.live = InsertAt(@, slot, Chunk(0, size)),
                !.pending = slot,
                !.unguarded = @ \/ ~can_insert_slot(node.ix, node.count),
                !.touched = insert_slot_last(node.ix, slot, node.count)]
  /\ call' = BtCall("insert_slot", "ok",
                    [slot |-> slot, size |-> size,
                     after_requires_split |-> hist.guard = size,
                     free_entry |-> node.count + node.ix.freelist_count
                                      < node.ix.capacity])
  /\ UNCHANGED <<other, blobs, envvars>>

\* allocate_space(count, slot, num_bytes) for the slot that was inserted
Index_allocate_space ==
  /\ IsIndex
  /\ hist.pending # -1
  /\ \E a \in {UpfrontIndex_allocate_space(node.ix, node.count, hist.pending,
                                          hist.live[hist.pending + 1].size)} :
       /\ node' = [node EXCEPT !.ix = a.ix]
       /\ hist' = [hist EXCEPT
            !.calls = @ + 1,
            !.pending = -1,
            !.guard = -1,
            !.live[hist.pending + 1] =
               IF allocate_space_fits(node.ix, hist.live[hist.pending + 1].size)
               THEN Chunk(node.ix.next_offset, @.size)
               ELSE IF a.st = "ok"
               THEN node.ix.chunk[FreelistFit(node.ix, node.count, @.size)]
               ELSE @,
            !.freed =
               IF ~allocate_space_fits(node.ix,
                                       hist.live[hist.pending + 1].size)
                  /\ a.st = "ok"
               THEN RemoveAt(@, FreelistFit(node.ix, node.count,
                               hist.live[hist.pending + 1].size) - node.count)
               ELSE @,
            !.touched = allocate_space_last(node.ix, node.count, hist.pending,
                                            hist.live[hist.pending + 1].size)]
       /\ call' = BtCall("allocate_space", a.st,
                         [slot |-> hist.pending,
                          num_bytes |-> hist.live[hist.pending + 1].size,
                          offset |-> a.offset,
                          tail |-> allocate_space_fits(node.ix,
                                     hist.live[hist.pending + 1].size),
                          next_offset |-> node.ix.next_offset,
                          after_requires_split |->
                            hist.guard = hist.live[hist.pending + 1].size])
  /\ UNCHANGED <<other, blobs, envvars>>

\* erase_slot(slot, count), and the caller counts the slot off
Index_erase_slot(slot) ==
  /\ IsIndex
  /\ hist.pending = -1
  /\ slot \in 0..(node.count - 1)
  /\ node' = [node EXCEPT !.ix = erase_slot(@, slot, node.count),
                          !.count = @ - 1]
  /\ hist' = [hist EXCEPT
                !.calls = @ + 1,
                !.guard = -1,
                !.live = RemoveAt(@, slot),
                !.freed = IF slot = node.count - 1
                          THEN <<hist.live[slot + 1]>> \o @
                          ELSE Append(@, hist.live[slot + 1]),
                !.touched = erase_slot_last(node.ix, slot, node.count)]
  /\ call' = BtCall("erase_slot", "ok", [slot |-> slot])
  /\ UNCHANGED <<other, blobs, envvars>>

ChunkSizes == {2, 4}

NextIndex ==
  \/ Index_create(IndexCapacity, IndexData)
  \/ /\ hist.calls < MaxIndexCalls
     /\ \E num_bytes \in ChunkSizes : Index_can_allocate_space(num_bytes)
  \/ /\ hist.calls < MaxIndexCalls
     /\ \E size \in ChunkSizes : Index_requires_split(size)
  \/ /\ hist.calls < MaxIndexCalls
     /\ \E slot \in 0..IndexCapacity, size \in ChunkSizes :
          Index_insert_slot(slot, size)
  \/ Index_allocate_space
  \/ /\ hist.calls < MaxIndexCalls
     /\ \E slot \in 0..IndexCapacity : Index_erase_slot(slot)

SpecIndex == Init /\ [][NextIndex]_vars

\* the used chunks lie one behind the other from the start of the data
\* area, in the order of their offsets
Contiguous(ix, count) ==
  LET RECURSIVE Packed(_, _)
      Packed(slots, at) ==
        IF slots = {} THEN TRUE
        ELSE LET s == CHOOSE x \in slots :
                        \A y \in slots :
                          get_chunk_offset(ix, x) <= get_chunk_offset(ix, y)
             IN /\ get_chunk_offset(ix, s) = at
                /\ Packed(slots \ {s}, at + get_chunk_size(ix, s))
  IN Packed(0..(count - 1),
            kIndexPayloadOffset + ix.capacity * get_full_index_size)

\* C21: the space for n bytes comes from the tail if next_offset + n <=
\* full_size, else from a freelist chunk of at least n bytes, else, if the
\* rearrange counter is positive, from a rearrange, after which the used
\* chunks lie contiguously from the start of the data area, freelist_count
\* is 0 and next_offset is the end of the last used chunk; else the
\* allocation fails.  can_allocate_space returns true exactly when one of
\* these steps can supply the n bytes.
C21_AllocationPolicy ==
  /\ (node.layout = "index" /\ call.op = "can_allocate_space") =>
       /\ call.args.result = call.args.supply
       /\ call.args.rearranged =>
            /\ node.ix.freelist_count = 0
            /\ node.ix.rearrange_counter = 0
            /\ Contiguous(node.ix, node.count)
            /\ node.ix.next_offset =
                 kIndexPayloadOffset
                   + node.ix.capacity * get_full_index_size
                   + LiveBytes(node.ix, node.count)
  /\ (node.layout = "index" /\ call.op = "allocate_space"
        /\ call.st = "ok") =>
       IF call.args.tail
       THEN /\ call.args.offset = call.args.next_offset
            /\ node.ix.next_offset
                 = call.args.next_offset + call.args.num_bytes
       ELSE /\ get_chunk_size(node.ix, call.args.slot) >= call.args.num_bytes
            /\ get_chunk_offset(node.ix, call.args.slot) = call.args.offset

\* C22: when requires_split(count, key) returned false, the insert_slot and
\* the allocate_space for the key succeed: there is a free index entry, and
\* allocate_space returns an offset with offset + size <= full_size and
\* does not reach its last assertion; and a split is reported to be
\* required when neither the tail, the freelist nor a rearrange can supply
\* the space.
C22_RequiresSplit ==
  /\ (node.layout = "index" /\ call.op = "insert_slot"
        /\ call.args.after_requires_split) => call.args.free_entry
  /\ (node.layout = "index" /\ call.op = "allocate_space"
        /\ call.args.after_requires_split) =>
       /\ call.st = "ok"
       /\ call.args.offset + call.args.num_bytes <= node.ix.full_size
  /\ (node.layout = "index" /\ call.op = "requires_split"
        /\ ~call.args.supply) => call.args.result

\* the chunks of a sequence, counted
SameChunks(s, t) ==
  /\ Len(s) = Len(t)
  /\ \A c \in {s[i] : i \in 1..Len(s)} \cup {t[i] : i \in 1..Len(t)} :
       Cardinality({i \in 1..Len(s) : s[i] = c})
         = Cardinality({i \in 1..Len(t) : t[i] = c})

\* C23: after a sequence of insert_slot, allocate_space and erase_slot in
\* which every insert was guarded by can_insert_slot, count +
\* freelist_count <= capacity, the entries [0, count) are the used slots,
\* the entries [count, count + freelist_count) are exactly the chunks
\* that were freed and not given out again, and no call read or wrote an
\* index entry at a position >= capacity.
C23_IndexEntries ==
  (node.layout = "index" /\ ~hist.unguarded
     /\ call.op \in {"insert_slot", "allocate_space", "erase_slot"}
     /\ call.st = "ok") =>
    /\ node.count + node.ix.freelist_count <= node.ix.capacity
    /\ [i \in 1..node.count |-> node.ix.chunk[i - 1]] = hist.live
    /\ SameChunks([i \in 1..node.ix.freelist_count |->
                     node.ix.chunk[node.count + i - 1]], hist.freed)
    /\ hist.touched < node.ix.capacity

(***************************************************************************)
(* Descent through an internal node: DefaultNodeImpl::find_child with its  *)
(* record id, the linear search of the PAX key list over the same keys,    *)
(* and BtreeIndex::find_child, which fetches the page of that record id.   *)
(***************************************************************************)

\* addresses of the pages below an internal node; none of them is 0
ChildPages == 1..(MaxLeafKeys + 1)

\* the loop of BinaryKeyList::linear_search; c counts the keys passed
RECURSIVE linear_search_loop(_, _, _, _)
linear_search_loop(keys, key, c, end) ==
  IF c < end
  THEN LET cmp == compare_keys(key, keys[c + 1])
       IN IF cmp <= 0
          THEN IF cmp < 0
               THEN [ret |-> c - 1, cmp |-> IF c = 0 THEN -1 ELSE 1]
               ELSE [ret |-> c, cmp |-> 0]
          ELSE linear_search_loop(keys, key, c + 1, end)
  ELSE [ret |-> end - 1, cmp |-> 1]

linear_search(keys, start, count, key) ==
  linear_search_loop(keys, key, start, start + count)

\* "*precord_id" of DefaultNodeImpl::find_child
find_child_record_id(n, ret) ==
  IF ret = -1 THEN n.ptr_down ELSE n.records[ret + 1]

\* the key list of the PAX layout holds keys of one size
FixedSize(keys) == \A i \in 1..Len(keys) : Len(keys[i]) = Len(keys[1])

\* the pages of the slots: distinct, none of them ptr_down, in rising or in
\* falling order of their addresses (modulo the number of pages)
ChildLists(n, ptr_down) ==
  {[i \in 1..n |-> ((ptr_down - 1 + dir * i) % (MaxLeafKeys + 1)) + 1] :
     dir \in {1, MaxLeafKeys}}

\* an internal page with its keys and the pages below it
Internal_create(keys, ptr_down, records) ==
  /\ Alive
  /\ node = NoNode
  /\ node' = [layout |-> "internal", keys |-> keys, ptr_down |-> ptr_down,
              records |-> records]
  /\ call' = BtCall("create", "ok", [count |-> Len(keys)])
  /\ UNCHANGED <<other, blobs, hist, envvars>>

\* node->find_child(key, &record_id) on the default layout
Node_find_child(key) ==
  /\ Alive
  /\ node.layout = "internal"
  /\ \E found \in {find_child(node.keys, key)} :
       call' = BtCall("node_find_child", "ok",
                      [key |-> key, ret |-> found.ret, cmp |-> found.cmp,
                       record_id |-> find_child_record_id(node, found.ret)])
  /\ UNCHANGED <<node, other, blobs, hist, envvars>>

\* m_keys.linear_search(0, count, key, comparator, &cmp) on the PAX layout
Pax_linear_search(key) ==
  /\ Alive
  /\ node.layout = "internal"
  /\ FixedSize(node.keys)
  /\ \E found \in {linear_search(node.keys, 0, Len(node.keys), key)} :
       call' = BtCall("linear_search", "ok",
                      [key |-> key, ret |-> found.ret, cmp |-> found.cmp])
  /\ UNCHANGED <<node, other, blobs, hist, envvars>>

\* BtreeIndex::find_child(page, key, flags, &idx): the page it fetches
BtreeIndex_find_child(key) ==
  /\ Alive
  /\ node.layout = "internal"
  /\ node.ptr_down # 0
  /\ \E found \in {find_child(node.keys, key)} :
       call' = BtCall("find_child", "ok",
                      [key |-> key, idx |-> found.ret,
                       page |-> find_child_record_id(node, found.ret)])
  /\ UNCHANGED <<node, other, blobs, hist, envvars>>

NextChild ==
  \/ \E keys \in Leaves, ptr_down \in ChildPages :
       \E records \in ChildLists(Len(keys), ptr_down) :
         Internal_create(keys, ptr_down, records)
  \/ \E key \in LeafKeys : Node_find_child(key)
  \/ \E key \in LeafKeys : Pax_linear_search(key)
  \/ \E key \in LeafKeys : BtreeIndex_find_child(key)

SpecChild == Init /\ [][NextChild]_vars

\* the slot and the sign a search of ascending keys has to report
ChildSlot(keys, key) ==
  IF SlotsEqual(keys, key) # {}
  THEN [ret |-> Min(SlotsEqual(keys, key)), sign |-> 0]
  ELSE IF SlotsBelow(keys, key) = {}
  THEN [ret |-> -1, sign |-> -1]
  ELSE [ret |-> Max(SlotsBelow(keys, key)), sign |-> 1]

Sign(c) == IF c < 0 THEN -1 ELSE IF c > 0 THEN 1 ELSE 0

\* C24: on a node with count >= 1 strictly ascending keys find_child returns
\* slot s and compare result c with c = 0 and key[s] = probe when the probe
\* is present, s = -1 and c < 0 when the probe is below key[0], and otherwise
\* c > 0 and s the greatest slot whose key is below the probe; the linear
\* search of the PAX key list over the whole node returns the same slot and
\* the same sign; in an internal node the child followed is ptr_down when
\* s = -1 and the record id of slot s otherwise.
C24_FindChild ==
  node.layout = "internal" =>
    LET keys == node.keys
        key == call.args.key
    IN /\ call.op = "node_find_child" =>
            /\ call.args.ret = ChildSlot(keys, key).ret
            /\ Sign(call.args.cmp) = ChildSlot(keys, key).sign
            /\ call.args.cmp = 0 => keys[call.args.ret + 1] = key
            /\ call.args.record_id =
                 (IF call.args.ret = -1 THEN node.ptr_down
                  ELSE node.records[call.args.ret + 1])
       /\ call.op = "linear_search" =>
            /\ call.args.ret = ChildSlot(keys, key).ret
            /\ Sign(call.args.cmp) = ChildSlot(keys, key).sign
            /\ call.args.ret = find_child(keys, key).ret
            /\ Sign(call.args.cmp) = Sign(find_child(keys, key).cmp)
       /\ call.op = "find_child" =>
            call.args.page =
              (IF ChildSlot(keys, key).ret = -1 THEN node.ptr_down
               ELSE node.records[ChildSlot(keys, key).ret + 1])

\* a descent that ended between two keys of a node of three, one that went
\* to ptr_down, and a linear search that stopped inside the node
C24_Witness ==
  /\ node.layout = "internal"
  /\ Len(node.keys) = 3
  /\ \/ call.op = "find_child" /\ call.args.idx = 1
        /\ call.args.page = node.records[2]
        /\ node.keys[2] # call.args.key
     \/ call.op = "find_child" /\ call.args.idx = -1
        /\ call.args.page = node.ptr_down

(***************************************************************************)
(* DefaultNodeImpl::scan: the visitor is called with the key and the       *)
(* record count of the slots the loop passes.                              *)
(***************************************************************************)

\* "(*visitor)(key_data, key_size, distinct ? 1 : get_record_count(i))"
Visit(n, bs, i, distinct) ==
  [slot |-> i, key |-> get_key(n, bs, i),
   records |-> IF distinct THEN 1
               ELSE DefaultNodeImpl_get_record_count(n, bs, i)]

\* "for (ham_u32_t i = start; i < count; i++)"
RECURSIVE scan_loop(_, _, _, _, _)
scan_loop(n, bs, i, count, distinct) ==
  IF i < count
  THEN <<Visit(n, bs, i, distinct)>> \o scan_loop(n, bs, i + 1, count, distinct)
  ELSE <<>>

\* "ham_u32_t count = m_node->get_count() - start;"
scan(n, bs, start, distinct) ==
  scan_loop(n, bs, start, n.count - start, distinct)

\* node->scan(visitor, start, distinct) with start inside the node
Node_scan(start, distinct) ==
  /\ Alive
  /\ node.layout = "default"
  /\ start \in 0..node.count
  /\ call' = BtCall("scan", "ok",
                    [start |-> start, distinct |-> distinct,
                     visited |-> scan(node, blobs, start, distinct)])
  /\ UNCHANGED <<node, other, blobs, hist, envvars>>

ScanKeys == LoadableKeys \cup {LeafNodeKeys}

NextScan ==
  \/ \E keys \in ScanKeys, dups \in 0..2 : Node_load(keys, dups)
  \/ \E start \in 0..Len(LeafNodeKeys), distinct \in BOOLEAN :
       Node_scan(start, distinct)

SpecScan == Init /\ [][NextScan]_vars

\* C25: scan(visitor, start, distinct) calls the visitor exactly once for
\* every slot in [start, count), in ascending slot order, with the record
\* count 1 when distinct is set and record_count(slot) otherwise; no slot
\* below start is visited and none at or above start is skipped.
C25_Scan ==
  (call.op = "scan" /\ node.layout = "default") =>
    call.args.visited =
      [j \in 1..(node.count - call.args.start) |->
         Visit(node, blobs, call.args.start + j - 1, call.args.distinct)]

(***************************************************************************)
(* The position of an inserted duplicate and the entries that were there   *)
(* before it (DuplicateDefaultRecordList::set_record, inline duplicates).  *)
(***************************************************************************)

\* the inline entries of a slot, 9 bytes each, as they are in the page
InlineEntries(n, slot) ==
  [i \in 1..get_inline_record_count(n, slot) |->
     BytesAt(n.data,
             get_chunk_offset(n.index, slot) + 1 + kRecordWidth * (i - 1),
             kRecordWidth)]

\* where the flags of an insert relative to duplicate i of c put the record
InsertPosition(flags, i, c) ==
  IF HAM_DUPLICATE_INSERT_FIRST \in flags THEN 0
  ELSE IF HAM_DUPLICATE_INSERT_BEFORE \in flags THEN i
  ELSE IF HAM_DUPLICATE_INSERT_AFTER \in flags THEN i + 1
  ELSE c

\* a duplicate was inserted into the inline list of slot 0 by this step
InsertedInline ==
  /\ node.layout = "duplicates"
  /\ call'.op = "set_record"
  /\ call'.st = "ok"
  /\ hist'.calls = hist.calls + 1
  /\ HAM_OVERWRITE \notin call'.args.flags
  /\ ~HasDuplicateTable(node', 0)

\* C26: a duplicate inserted relative to index i into a key with c
\* duplicates is at position 0 for DuplicateInsertFirst, c for
\* DuplicateInsertLast or no position flag, i for DuplicateInsertBefore and
\* i + 1 for DuplicateInsertAfter; that position is reported as the new
\* duplicate index; the c records that were there are unchanged and keep
\* their order.
C26_InsertPosition ==
  [][InsertedInline =>
       LET c == get_inline_record_count(node, 0)
           before == InlineEntries(node, 0)
           after == InlineEntries(node', 0)
           pos == InsertPosition(call'.args.flags,
                                 call'.args.duplicate_index, c)
       IN /\ Len(after) = c + 1
          /\ call'.args.new_duplicate_index = pos
          /\ \A j \in 1..c :
               after[IF j <= pos THEN j ELSE j + 1] = before[j]]_vars

(***************************************************************************)
(* A record that was set is read back (DuplicateDefaultRecordList).        *)
(***************************************************************************)

\* the size class an entry has to carry for a record
SizeClass(record) ==
  IF Len(record) = 0 THEN kBlobSizeEmpty
  ELSE IF Len(record) < 8 THEN kBlobSizeTiny
  ELSE IF Len(record) = 8 THEN kBlobSizeSmall
  ELSE 0

\* the flags of an inline entry: "1 byte flags (RecordFlag::*), 8 byte data"
InlineRecordFlags(n, slot, duplicate_index) ==
  n.data[get_chunk_offset(n.index, slot) + 1 + kRecordWidth * duplicate_index]

\* the duplicate a completed set_record has written
WrittenIndex ==
  IF HAM_OVERWRITE \in call.args.flags THEN call.args.duplicate_index
  ELSE call.args.new_duplicate_index

\* C27: for a record of 0, 1 to 7, 8 or more than 8 bytes set_record(slot,
\* dup, record) followed by get_record(slot, dup) returns the same size and
\* bytes, and the size class stored with the entry is Empty, Tiny, Small or
\* none (a blob id) respectively.
C27_RoundTrip ==
  (node.layout = "duplicates" /\ call.op = "set_record" /\ call.st = "ok"
     /\ ~HasDuplicateTable(node, 0))
  => /\ get_record(node, blobs, 0, WrittenIndex)
          = Returned("ok", call.args.record)
     /\ InlineRecordFlags(node, 0, WrittenIndex) = SizeClass(call.args.record)

(***************************************************************************)
(* DuplicateTable of the live revision: "Byte [0..3] - count, [4..7] -     *)
(* capacity, [8.. [ - the record list", each record with 1 byte of flags   *)
(* and 8 bytes of data, or, with inline records, m_record_size bytes.      *)
(***************************************************************************)

\* the number of calls made on one table
MaxTableCalls == 3

\* the fixed record size of the tables with inline records
TableRecordSize == 2

NoTableId == Zeros(8)

\* ByteArray::resize; the bytes that are new read as 0
Resize(bytes, n) ==
  [i \in 0..(n - 1) |-> IF i \in DOMAIN bytes THEN bytes[i] ELSE 0]

DuplicateTable_get_record_count(t) == t.bytes[0]
DuplicateTable_get_record_capacity(t) == t.bytes[4]

DuplicateTable_get_record_width(t) ==
  IF t.inline_records THEN t.record_size ELSE 8 + 1

DuplicateTable_get_raw_record_data(t, duplicate_index) ==
  8 + DuplicateTable_get_record_width(t) * duplicate_index

\* get_record_data(duplicate_index, &pflags): "*pflags = p++" with flags
DuplicateTable_get_record_data(t, duplicate_index) ==
  DuplicateTable_get_raw_record_data(t, duplicate_index)
    + (IF t.store_flags THEN 1 ELSE 0)

DuplicateTable_get_record_flags(t, duplicate_index) ==
  IF t.store_flags
  THEN t.bytes[DuplicateTable_get_raw_record_data(t, duplicate_index)]
  ELSE 0

\* flush_duplicate_table(): the table and the blobs after it
DuplicateTable_flush(t, bs) ==
  IF t.id = NoTableId
  THEN [t |-> [t EXCEPT !.id = NewBlobId(bs)],
        bs |-> BlobAllocate(bs, t.bytes)]
  ELSE [t |-> t, bs |-> BlobOverwrite(bs, t.id, t.bytes)]

\* DuplicateTable(db, inline_records, record_size) and allocate(data,
\* record_count)
DuplicateTable_allocate(inline_records, record_size, data, record_count) ==
  LET t == [layout |-> "table", inline_records |-> inline_records,
            store_flags |-> ~inline_records, record_size |-> record_size,
            bytes |-> <<>>, id |-> NoTableId, deleted |-> FALSE]
      width == DuplicateTable_get_record_width(t)
      sized == Resize(<<>>, 8 + record_count * 2 * width)
      filled == IF record_count > 0 THEN memcpy(sized, 8, data) ELSE sized
  IN DuplicateTable_flush(
       [t EXCEPT !.bytes = [filled EXCEPT ![0] = record_count,
                                         ![4] = record_count * 2]],
       NoBlobs)

DuplicateTable_grow(t) ==
  LET capacity == IF DuplicateTable_get_record_capacity(t) = 0 THEN 8
                  ELSE DuplicateTable_get_record_capacity(t)
  IN [t EXCEPT !.bytes =
        [Resize(@, 8 + (capacity * 2) * DuplicateTable_get_record_width(t))
           EXCEPT ![4] = capacity * 2]]

\* the end of set_record(): the record goes to the entry
DuplicateTable_store(t, bs, duplicate_index, record) ==
  LET p == DuplicateTable_get_record_data(t, duplicate_index)
      record_flags == DuplicateTable_get_raw_record_data(t, duplicate_index)
  IN IF t.inline_records
     THEN [t |-> [t EXCEPT !.bytes = memcpy(@, p, record)], bs |-> bs]
     ELSE IF Len(record) = 0
     THEN [t |-> [t EXCEPT !.bytes =
                    [memcpy(@, p, Zeros(8)) EXCEPT ![record_flags] =
                                                     kBlobSizeEmpty]],
           bs |-> bs]
     ELSE IF Len(record) < 8
     THEN [t |-> [t EXCEPT !.bytes =
                    [memcpy([@ EXCEPT ![p + 7] = Len(record)], p, record)
                       EXCEPT ![record_flags] = kBlobSizeTiny]],
           bs |-> bs]
     ELSE IF Len(record) = 8
     THEN [t |-> [t EXCEPT !.bytes =
                    [memcpy(@, p, record) EXCEPT ![record_flags] =
                                                   kBlobSizeSmall]],
           bs |-> bs]
     ELSE [t |-> [t EXCEPT !.bytes =
                    memcpy([@ EXCEPT ![record_flags] = 0], p, NewBlobId(bs))],
           bs |-> BlobAllocate(bs, record)]

\* the gap for an insert: the table after "adjust flags", the growth and
\* the memmove, with the counter set
DuplicateTable_gap(t, duplicate_index, flags) ==
  LET count == DuplicateTable_get_record_count(t)
      f == AdjustedFlags(flags, duplicate_index, count)
      di == AdjustedIndex(flags, duplicate_index, count)
      Open(g) ==
        IF HAM_DUPLICATE_INSERT_FIRST \in f
        THEN [t |-> [g EXCEPT !.bytes =
                       [(IF count > 0
                         THEN memmove(@, DuplicateTable_get_raw_record_data(g, 0)
                                           + DuplicateTable_get_record_width(g),
                                      DuplicateTable_get_raw_record_data(g, 0),
                                      count * DuplicateTable_get_record_width(g))
                         ELSE @) EXCEPT ![0] = count + 1]],
              at |-> 0]
        ELSE IF HAM_DUPLICATE_INSERT_BEFORE \in f
        THEN [t |-> [g EXCEPT !.bytes =
                       [memmove(@, DuplicateTable_get_raw_record_data(g, di)
                                     + DuplicateTable_get_record_width(g),
                                DuplicateTable_get_raw_record_data(g, di),
                                (count - di)
                                  * DuplicateTable_get_record_width(g))
                          EXCEPT ![0] = count + 1]],
              at |-> di]
        ELSE [t |-> [g EXCEPT !.bytes = [@ EXCEPT ![0] = count + 1]],
              at |-> count]
  IN Open(IF count = DuplicateTable_get_record_capacity(t)
          THEN DuplicateTable_grow(t) ELSE t)

\* DuplicateTable::set_record(duplicate_index, record, flags,
\* &new_duplicate_index): the table, the blobs and the new index
DuplicateTable_set_record(t, bs, duplicate_index, record, flags) ==
  LET p == DuplicateTable_get_record_data(t, duplicate_index)
      Written(s, at) ==
        [t |-> DuplicateTable_flush(s.t, s.bs).t,
         bs |-> DuplicateTable_flush(s.t, s.bs).bs,
         new_duplicate_index |-> at]
  IN IF HAM_OVERWRITE \in flags
     THEN IF t.inline_records
          THEN Written([t |-> [t EXCEPT !.bytes = memcpy(@, p, record)],
                        bs |-> bs], -1)
          ELSE IF ~is_record_inline(
                     DuplicateTable_get_record_flags(t, duplicate_index))
          THEN IF Len(record) > 8
               THEN \* blob_manager->overwrite() keeps the id of the blob
                    Written([t |-> t,
                             bs |-> BlobOverwrite(bs, BytesAt(t.bytes, p, 8),
                                                  record)], -1)
               ELSE Written(DuplicateTable_store(
                              t, BlobErase(bs, BytesAt(t.bytes, p, 8)),
                              duplicate_index, record), duplicate_index)
          ELSE Written(DuplicateTable_store(t, bs, duplicate_index, record),
                       duplicate_index)
     ELSE CHOOSE r \in
            {Written(DuplicateTable_store(g.t, bs, g.at, record), g.at) :
               g \in {DuplicateTable_gap(t, duplicate_index, flags)}} : TRUE

\* DuplicateTable::get_record(duplicate_index, arena, record, flags)
DuplicateTable_get_record(t, bs, duplicate_index) ==
  LET p == DuplicateTable_get_record_data(t, duplicate_index)
      record_flags == DuplicateTable_get_record_flags(t, duplicate_index)
  IN IF t.inline_records
     THEN Returned("ok", BytesAt(t.bytes, p, t.record_size))
     ELSE IF BitAnd(record_flags, kBlobSizeEmpty) # 0
     THEN Returned("ok", <<>>)
     ELSE IF BitAnd(record_flags, kBlobSizeTiny) # 0
     THEN Returned("ok", BytesAt(t.bytes, p, t.bytes[p + 7]))
     ELSE IF BitAnd(record_flags, kBlobSizeSmall) # 0
     THEN Returned("ok", BytesAt(t.bytes, p, 8))
     ELSE IF BlobExists(bs, BytesAt(t.bytes, p, 8))
     THEN Returned("ok", BlobRead(bs, BytesAt(t.bytes, p, 8)))
     ELSE Returned("HAM_BLOB_NOT_FOUND", <<>>)

\* the blob of entry i is erased and its id set to 0, if the entry has one
DuplicateTable_erase_blob(s, i) ==
  LET p == DuplicateTable_get_record_data(s.t, i)
  IN IF is_record_inline(DuplicateTable_get_record_flags(s.t, i)) THEN s
     ELSE [t |-> [s.t EXCEPT !.bytes = memcpy(@, p, Zeros(8))],
           bs |-> BlobErase(s.bs, BytesAt(s.t.bytes, p, 8))]

RECURSIVE DuplicateTable_erase_blobs(_, _, _)
DuplicateTable_erase_blobs(s, i, count) ==
  IF i >= count THEN s
  ELSE DuplicateTable_erase_blobs(DuplicateTable_erase_blob(s, i), i + 1,
                                  count)

\* DuplicateTable::erase_record(duplicate_index, all_duplicates)
DuplicateTable_erase_record(t, bs, duplicate_index, all_duplicates) ==
  LET count == DuplicateTable_get_record_count(t)
      Cleared(s) ==
        [t |-> [s.t EXCEPT !.bytes = <<>>, !.id = NoTableId],
         bs |-> BlobErase(s.bs, t.id)]
      Moved(s) ==
        DuplicateTable_flush(
          [s.t EXCEPT !.bytes =
             [memmove(@, DuplicateTable_get_raw_record_data(t, duplicate_index),
                      DuplicateTable_get_raw_record_data(t, duplicate_index)
                        + DuplicateTable_get_record_width(t),
                      DuplicateTable_get_record_width(t)
                        * (count - duplicate_index - 1))
                EXCEPT ![0] = count - 1]],
          s.bs)
  IN IF all_duplicates
     THEN IF t.store_flags /\ ~t.inline_records
          THEN Cleared(DuplicateTable_erase_blobs([t |-> t, bs |-> bs], 0,
                                                  count))
          ELSE [t |-> t, bs |-> bs]
     ELSE IF duplicate_index < count - 1
     THEN Moved(IF t.store_flags /\ ~t.inline_records
                THEN DuplicateTable_erase_blob([t |-> t, bs |-> bs],
                                               duplicate_index)
                ELSE [t |-> t, bs |-> bs])
     ELSE DuplicateTable_flush([t EXCEPT !.bytes[0] = count - 1], bs)

\* ---- the calls
\* a record of the documented format for the table that is filled from it
FirstEntry(inline_records) ==
  IF inline_records THEN [k \in 1..TableRecordSize |-> 5]
  ELSE <<kBlobSizeSmall>> \o SmallRecord

FirstRecord(inline_records) ==
  IF inline_records THEN [k \in 1..TableRecordSize |-> 5] ELSE SmallRecord

Table_allocate(inline_records, record_count) ==
  /\ node = NoNode
  /\ \E a \in {DuplicateTable_allocate(inline_records, TableRecordSize,
                                       FirstEntry(inline_records),
                                       record_count)} :
       /\ node' = a.t
       /\ blobs' = a.bs
  /\ hist' = [NoHistory EXCEPT !.recs =
                IF record_count = 0 THEN <<>>
                ELSE <<FirstRecord(inline_records)>>]
  /\ call' = BtCall("allocate", "ok", [record_count |-> record_count])
  /\ UNCHANGED <<other, envvars>>

Table_set_record(duplicate_index, record, flags) ==
  /\ node.layout = "table"
  /\ ~node.deleted
  /\ node.inline_records => Len(record) = node.record_size
  /\ \E s \in {DuplicateTable_set_record(node, blobs, duplicate_index,
                                         record, flags)} :
       /\ node' = s.t
       /\ blobs' = s.bs
       /\ call' = BtCall("set_record", "ok",
                         [duplicate_index |-> duplicate_index,
                          record |-> record, flags |-> flags,
                          new_duplicate_index |-> s.new_duplicate_index])
  /\ hist' = [hist EXCEPT
                !.recs = ExpectedAfterSet(@, duplicate_index, record, flags),
                !.calls = @ + 1]
  /\ UNCHANGED <<other, envvars>>

\* the owner of the table deletes it after it erased all duplicates
Table_erase_record(duplicate_index, all_duplicates) ==
  /\ node.layout = "table"
  /\ ~node.deleted
  /\ \E s \in {DuplicateTable_erase_record(node, blobs, duplicate_index,
                                           all_duplicates)} :
       /\ node' = [s.t EXCEPT !.deleted = all_duplicates]
       /\ blobs' = s.bs
  /\ call' = BtCall("erase_record", "ok",
                    [duplicate_index |-> duplicate_index,
                     all_duplicates |-> all_duplicates,
                     count |-> DuplicateTable_get_record_count(node)])
  /\ hist' = [hist EXCEPT
                !.recs = IF all_duplicates THEN <<>>
                         ELSE SubSeq(@, 1, duplicate_index)
                              \o SubSeq(@, duplicate_index + 2, Len(@)),
                !.calls = @ + 1]
  /\ UNCHANGED <<other, envvars>>

TableRecords(inline_records) ==
  IF inline_records THEN {[k \in 1..TableRecordSize |-> b] : b \in {1, 2}}
  ELSE Records \cup {TinyRecord}

NextTable ==
  \/ \E inline_records \in BOOLEAN, record_count \in {0, 1} :
       Table_allocate(inline_records, record_count)
  \/ /\ node.layout = "table"
     /\ hist.calls < MaxTableCalls
     /\ \E r \in TableRecords(node.inline_records),
           f \in {HAM_DUPLICATE_INSERT_FIRST, HAM_DUPLICATE_INSERT_LAST} :
          Table_set_record(0, r, {f})
  \/ /\ node.layout = "table"
     /\ hist.calls < MaxTableCalls
     /\ \E r \in TableRecords(node.inline_records) : Table_set_record(0, r, {})
  \/ /\ node.layout = "table"
     /\ hist.calls < MaxTableCalls
     /\ \E r \in TableRecords(node.inline_records),
           i \in 0..(Len(hist.recs) - 1) :
          \E f \in {HAM_DUPLICATE_INSERT_BEFORE, HAM_DUPLICATE_INSERT_AFTER,
                    HAM_OVERWRITE} :
            Table_set_record(i, r, {f})
  \/ /\ node.layout = "table"
     /\ hist.calls < MaxTableCalls
     /\ \E i \in 0..(Len(hist.recs) - 1) : Table_erase_record(i, FALSE)
  \/ /\ node.layout = "table"
     /\ hist.calls < MaxTableCalls
     /\ Table_erase_record(0, TRUE)

SpecTable == Init /\ [][NextTable]_vars

\* what the table holds, as get_record returns it
TableContents(t, bs) ==
  [i \in 1..DuplicateTable_get_record_count(t) |->
     DuplicateTable_get_record(t, bs, i - 1)]

TableAsExpected ==
  (node.layout = "table" /\ ~node.deleted)
  => TableContents(node, blobs) = [i \in 1..Len(hist.recs) |->
                                     Returned("ok", hist.recs[i])]

\* the blobs a table keeps alive: its own, and those of the entries whose
\* record is a blob
TableBlobIds(t) ==
  IF t.deleted THEN {}
  ELSE {t.id} \cup
       {BytesAt(t.bytes, DuplicateTable_get_record_data(t, i), 8) :
          i \in {j \in 0..(DuplicateTable_get_record_count(t) - 1) :
                   t.store_flags
                   /\ ~is_record_inline(DuplicateTable_get_record_flags(t, j))}}

LiveBlobIds(bs) == {BlobId(k) : k \in {j \in 1..Len(bs) : bs[j].live}}

\* C28: erase_record leaks no storage: after a single duplicate was erased,
\* whatever its index, the blob of its record is erased; after all
\* duplicates were erased every blob of a record and the blob of the table
\* itself are erased, for tables of 9-byte entries and for tables of
\* fixed-size inline records.
C28_EraseLeaksNothing ==
  [][(node.layout = "table" /\ call'.op = "erase_record"
        /\ hist'.calls = hist.calls + 1
        /\ LiveBlobIds(blobs) \subseteq TableBlobIds(node))
     => LiveBlobIds(blobs') \subseteq TableBlobIds(node')]_vars

\* a step of erase_record on the record list of the leaf
ErasedInline ==
  /\ node.layout = "duplicates"
  /\ call'.op = "erase_record"
  /\ hist'.calls = hist.calls + 1

\* the bytes of the range that are not in the chunk of the slot
OutsideChunk(n, slot) ==
  {k \in DOMAIN n.data :
     \/ k < get_chunk_offset(n.index, slot)
     \/ k >= get_chunk_offset(n.index, slot) + get_chunk_size(n.index, slot)}

\* C29: erase_record(slot, i, all) changes only the records of that slot:
\* no byte outside of the chunk of the slot is read or written, for every
\* duplicate index i below the record count, and the duplicates that remain
\* keep their values and their order.
C29_EraseFrame ==
  [][ErasedInline =>
       LET i == call'.args.duplicate_index
           before == InlineEntries(node, 0)
           after == InlineEntries(node', 0)
       IN /\ call'.st # "SIGSEGV"
          /\ \A k \in OutsideChunk(node, 0) : node'.data[k] = node.data[k]
          /\ (call'.st = "ok" /\ ~call'.args.all_duplicates
                /\ Len(before) > 1)
               => /\ Len(after) = Len(before) - 1
                  /\ \A j \in 1..Len(after) :
                       after[j] = before[IF j <= i THEN j ELSE j + 1]]_vars

\* C30: after any sequence of create_db, rename_db, erase_db, open_db and
\* closes of databases, whether the calls succeed or fail, no two descriptor
\* slots hold the same name other than 0, every open database has a slot
\* with its name, and every slot with a name other than 0 is the one of a
\* database that was created completely: its root address is not 0.
C30_DescriptorTable ==
  /\ \A i \in Slots, j \in Slots :
       (i # j /\ Descs[i].dbname # 0) => Descs[i].dbname # Descs[j].dbname
  /\ \A n \in dbmap : \E i \in Slots : Descs[i].dbname = n
  /\ \A i \in Slots : Descs[i].dbname # 0 => Descs[i].root_address # 0

====
